---------------------------- MODULE Spec2Model ----------------------------
(***************************************************************************)
(* A model of the PeerChunks node: the location index (indexing/dht.rs),   *)
(* the chunk store (file_manager/storage.rs), the replication engine       *)
(* (file_manager/replication.rs), the per-connection protocol task         *)
(* (peer/connection.rs) and the chunk fetch client (ui/cli.rs).            *)
(*                                                                         *)
(* Byte streams are sequences of symbols.  "\n", ":" and " " are the       *)
(* bytes the code looks for; every other symbol is a word: a run of bytes  *)
(* holding none of those three (a keyword, the text of a uuid, a decimal   *)
(* number, a host name, a payload byte).  A symbol counts as one unit of   *)
(* length on both ends of a transfer.                                      *)
(***************************************************************************)
EXTENDS Integers, Sequences, FiniteSets, TLC

VARIABLES
    dht,        \* dht[n]: the location index of node n (HashMap<Uuid, Vec<Peer>>)
    iterOrder,  \* iterOrder[n]: the iteration order of node n's HashMap
    fs,         \* fs[n]: the files of node n, path -> content
    chan,       \* chan[n]: bytes sent to endpoint n and not read yet
    eof,        \* eof[n]: the other endpoint has dropped its stream
    conn,       \* conn[n]: the handle_connection task of node n
    last,       \* last[n]: the lines the task of node n dispatched in its latest step
    client,     \* the client role at endpoint 2 (send_chunk_to_peer / fetch_chunk_from_peer)
    script,     \* the frames a scripted remote peer at endpoint 2 has still to send
    repl,       \* the replicate_chunks call
    dhtOp       \* the latest call made on the index in DhtSpec

vars == <<dht, iterOrder, fs, chan, eof, conn, last, client, script, repl, dhtOp>>

-----------------------------------------------------------------------------
(* Bounds of the model *)

\* The longest entry list handed to merge_entries in DhtSpec.
MaxEntries == 2

-----------------------------------------------------------------------------
(* Bytes, words and the conversions between text and values *)

NL == "\n"
COLON == ":"
SP == " "

Nodes == {1, 2}

Other(n) == 3 - n

\* The file identifiers (Uuid values) of the model.
FileIds == {"f1", "f2"}

\* Uuid's Display: the canonical hyphenated lower-case text.
FormatUuid(fid) == fid

\* Uuid::parse_str: the canonical text and the other accepted forms (upper
\* case, simple, braced) parse to the same value; anything else is an error.
UuidTexts == [f1 |-> "f1", F1 |-> "f1", f2 |-> "f2", F2 |-> "f2"]

ParseUuidOk(part) == Len(part) = 1 /\ part[1] \in DOMAIN UuidTexts

ParseUuid(part) == UuidTexts[part[1]]

\* usize's Display: the decimal text without leading zeros.
Dec == <<"0", "1", "2", "3", "4", "5", "6", "7", "8", "9", "10", "11", "12",
         "13", "14", "15", "16">>

FormatUsize(n) == Dec[n + 1]

\* str::parse::<usize>: the canonical text, and a text with a leading zero.
ParseUsizeOk(part) ==
    /\ Len(part) = 1
    /\ \/ \E n \in 1..Len(Dec) : Dec[n] = part[1]
       \/ part[1] \in {"00", "01"}

\* With one more than the number the text spells.
ParseUsizePlusOne(part) ==
    IF part[1] = "00" THEN 1
    ELSE IF part[1] = "01" THEN 2
    ELSE CHOOSE n \in 1..Len(Dec) : Dec[n] = part[1]

ParseUsize(part) ==
    IF part[1] = "00" THEN 0
    ELSE IF part[1] = "01" THEN 1
    ELSE (CHOOSE n \in 1..Len(Dec) : Dec[n] = part[1]) - 1

\* str::trim: leading and trailing white space removed.
WhiteSpace == {NL, SP}

RECURSIVE TrimStart(_)
TrimStart(s) ==
    IF s # <<>> /\ Head(s) \in WhiteSpace THEN TrimStart(Tail(s)) ELSE s

RECURSIVE TrimEnd(_)
TrimEnd(s) ==
    IF s # <<>> /\ s[Len(s)] \in WhiteSpace
    THEN TrimEnd(SubSeq(s, 1, Len(s) - 1))
    ELSE s

Trim(s) == TrimEnd(TrimStart(s))

\* iter().position(|&b| b == b'\n'): the place of the first newline, 0 for None.
PosNL(buf) ==
    IF \E k \in 1..Len(buf) : buf[k] = NL
    THEN CHOOSE k \in 1..Len(buf) : buf[k] = NL /\ \A j \in 1..(k - 1) : buf[j] # NL
    ELSE 0

\* str::split(':'): the fields between the colons; an empty text is one empty field.
RECURSIVE Split(_)
Split(s) ==
    IF \E k \in 1..Len(s) : s[k] = COLON
    THEN LET k == CHOOSE k \in 1..Len(s) :
                    s[k] = COLON /\ \A j \in 1..(k - 1) : s[j] # COLON
         IN <<SubSeq(s, 1, k - 1)>> \o Split(SubSeq(s, k + 1, Len(s)))
    ELSE <<s>>

\* str::starts_with
StartsWith(s, prefix) ==
    Len(s) >= Len(prefix) /\ SubSeq(s, 1, Len(prefix)) = prefix

\* The elements of a sequence.
Range(s) == {s[k] : k \in 1..Len(s)}

\* The sequences over S of length at most n.
SeqUpTo(S, n) == UNION {[1..k -> S] : k \in 0..n}

-----------------------------------------------------------------------------
(* The location index: indexing/dht.rs *)

\* Peer addresses.  A dialable address is host:port; an index entry taken
\* from a gossip line is whatever text stood in its second field.
LocalAddr == <<"127.0.0.1", COLON, "8080">>
PeerAddr1 == <<"10.0.0.1", COLON, "8081">>
BareAddr == <<"node3">>

\* DHT::new
EmptyDht == <<>>

\* Without the test for an address already recorded.
RegisterNoDedup(map, file_id, address) ==
    LET m1 == IF file_id \in DOMAIN map THEN map ELSE map @@ (file_id :> <<>>)
    IN [m1 EXCEPT ![file_id] = Append(@, address)]

\* With the file's list replaced by the new address instead of extended.
RegisterReplace(map, file_id, address) ==
    LET m1 == IF file_id \in DOMAIN map THEN map ELSE map @@ (file_id :> <<>>)
    IN [m1 EXCEPT ![file_id] = <<address>>]

\* With an address recorded only for a file that has none yet.
RegisterFirstOnly(map, file_id, address) ==
    IF file_id \in DOMAIN map /\ map[file_id] # <<>> THEN map
    ELSE map @@ (file_id :> <<address>>)

\* DHT::register_file_location
RegisterFileLocation(map, file_id, address) ==
    LET m1 == IF file_id \in DOMAIN map THEN map ELSE map @@ (file_id :> <<>>)
    IN IF \E k \in 1..Len(m1[file_id]) : m1[file_id][k] = address
       THEN m1
       ELSE [m1 EXCEPT ![file_id] = Append(@, address)]

\* DHT::get_file_locations: None is the empty record [found |-> FALSE].
GetFileLocations(map, file_id) ==
    IF file_id \in DOMAIN map
    THEN [found |-> TRUE, peers |-> map[file_id]]
    ELSE [found |-> FALSE, peers |-> <<>>]

\* DHT::all_entries: the files in the map's iteration order, each file's
\* peers in the order they were pushed.
RECURSIVE AllEntriesFrom(_, _)
AllEntriesFrom(map, order) ==
    IF order = <<>> THEN <<>>
    ELSE LET f == Head(order)
             own == IF f \in DOMAIN map
                    THEN [k \in 1..Len(map[f]) |-> <<f, map[f][k]>>]
                    ELSE <<>>
         IN own \o AllEntriesFrom(map, Tail(order))

AllEntries(map, order) == AllEntriesFrom(map, order)

\* DHT::merge_entries: one register_file_location per entry, in order.
RECURSIVE MergeEntries(_, _)
MergeEntries(map, entries) ==
    IF entries = <<>> THEN map
    ELSE MergeEntries(RegisterFileLocation(map, Head(entries)[1], Head(entries)[2]),
                      Tail(entries))

\* The possible iteration orders of a map over the model's file identifiers.
IterOrders == {<<"f1", "f2">>, <<"f2", "f1">>}

\* exportAll() as a set of (fileId, address) pairs.
ExportSet(map) ==
    UNION {{<<f, map[f][k]>> : k \in 1..Len(map[f])} : f \in DOMAIN map}

-----------------------------------------------------------------------------
(* The chunk store: file_manager/storage.rs *)

\* A path is a sequence of components, a component a text.
StorageRoot == <<<<"storage">>>>

\* Path::join
Join(dir, name) == Append(dir, name)

\* format!("chunk_{}.bin", index)
ChunkFileName(index) == <<"chunk_", FormatUsize(index), ".bin">>

\* initialize_storage: the directory <storage_root>/<file_id>.
FileDir(root, fid) == Join(root, <<FormatUuid(fid)>>)

\* A store: the directories that exist and the files with their content.
NoFiles == [dirs |-> {}, files |-> <<>>]

\* fs::create_dir_all(<storage_root>/<file_id>)
InitializeStorage(store, root, fid) ==
    [store EXCEPT !.dirs = @ \cup {root, FileDir(root, fid)}]

\* File::create succeeds when the directory exists.
SaveChunkOk(store, dir) == dir \in store.dirs

\* With the file opened for appending instead of created anew.
SaveChunkAppend(store, dir, index, data) ==
    LET p == Join(dir, ChunkFileName(index))
    IN IF ~SaveChunkOk(store, dir) THEN store
       ELSE IF p \in DOMAIN store.files
       THEN [store EXCEPT !.files[p] = @ \o data]
       ELSE [store EXCEPT !.files = @ @@ (p :> data)]

\* save_chunk: File::create and write_all replace the file's content; an
\* error leaves the store as it is.
SaveChunk(store, dir, index, data) ==
    LET p == Join(dir, ChunkFileName(index))
    IN IF ~SaveChunkOk(store, dir) THEN store
       ELSE IF p \in DOMAIN store.files
       THEN [store EXCEPT !.files[p] = data]
       ELSE [store EXCEPT !.files = @ @@ (p :> data)]

\* get_chunk: the content of <dir>/chunk_<index>.bin, or the NotFound error.
GetChunk(store, dir, index) ==
    LET p == Join(dir, ChunkFileName(index))
    IN IF p \in DOMAIN store.files
       THEN [ok |-> TRUE, data |-> store.files[p]]
       ELSE [ok |-> FALSE, data |-> <<>>]

\* The index a file name of the form chunk_<N>.bin carries.
IsChunkName(name) ==
    /\ Len(name) = 3
    /\ name[1] = "chunk_"
    /\ name[3] = ".bin"
    /\ ParseUsizeOk(<<name[2]>>)

\* sort_unstable: the numbers of a set in ascending order.
RECURSIVE SortedSeq(_)
SortedSeq(S) ==
    IF S = {} THEN <<>>
    ELSE LET m == CHOOSE x \in S : \A y \in S : x <= y
         IN <<m>> \o SortedSeq(S \ {m})

\* The loop of list_chunks and its sort_unstable: one index pushed for each
\* file name of the form chunk_<N>.bin, the vector then in ascending order.
RECURSIVE SortedIndices(_)
SortedIndices(names) ==
    IF names = {} THEN <<>>
    ELSE LET m == CHOOSE x \in names :
                     \A y \in names : ParseUsize(<<x[2]>>) <= ParseUsize(<<y[2]>>)
         IN <<ParseUsize(<<m[2]>>)>> \o SortedIndices(names \ {m})

\* list_chunks: the indices of the files chunk_<N>.bin directly in dir,
\* sorted; an error when fs::read_dir cannot read the directory.
ListChunks(store, dir) ==
    LET names == {p[Len(dir) + 1] : p \in {q \in DOMAIN store.files :
                        Len(q) = Len(dir) + 1 /\ SubSeq(q, 1, Len(dir)) = dir}}
    IN IF dir \in store.dirs
       THEN [ok |-> TRUE, indices |-> SortedIndices({m \in names : IsChunkName(m)})]
       ELSE [ok |-> FALSE, indices |-> <<>>]

\* The store of a node after initialize_storage for fid and one save_chunk
\* of data for each index of indices.
RECURSIVE StoreWith(_, _, _)
StoreWith(fid, indices, data) ==
    IF indices = {} THEN InitializeStorage(NoFiles, StorageRoot, fid)
    ELSE LET i == CHOOSE i \in indices : TRUE
         IN SaveChunk(StoreWith(fid, indices \ {i}, data),
                      FileDir(StorageRoot, fid), i, data)

-----------------------------------------------------------------------------
(* The values of the variables a specification does not use *)

NoConn == [pc |-> "none", buffer |-> <<>>, need |-> 0, entries |-> <<>>,
           header |-> <<>>, respDone |-> FALSE]
NoClient == [kind |-> "none", pc |-> "none"]
NoRepl == [pc |-> "none", peers |-> <<>>, dir |-> <<>>, fid |-> "f1", total |-> 0,
           chunk |-> 0, selected |-> <<>>, k |-> 0, attempts |-> <<>>]
NoDhtOp == [op |-> "none", entries |-> <<>>, before |-> EmptyDht]

-----------------------------------------------------------------------------
(* DhtSpec: calls on one location index *)

DhtAddrs == {LocalAddr, BareAddr}

DhtEntryLists == SeqUpTo(FileIds \X DhtAddrs, MaxEntries)

DhtInit ==
    /\ dht = [n \in Nodes |-> EmptyDht]
    /\ iterOrder \in [Nodes -> IterOrders]
    /\ fs = [n \in Nodes |-> NoFiles]
    /\ chan = [n \in Nodes |-> <<>>]
    /\ eof = [n \in Nodes |-> FALSE]
    /\ conn = [n \in Nodes |-> NoConn]
    /\ last = [n \in Nodes |-> <<>>]
    /\ client = NoClient
    /\ script = <<>>
    /\ repl = NoRepl
    /\ dhtOp = NoDhtOp

DhtRegister ==
    \E f \in FileIds, a \in DhtAddrs :
        /\ dht' = [dht EXCEPT ![1] = RegisterFileLocation(@, f, a)]
        /\ dhtOp' = [op |-> "register", entries |-> <<<<f, a>>>>, before |-> dht[1]]
        /\ UNCHANGED <<iterOrder, fs, chan, eof, conn, last, client, script, repl>>

DhtMerge ==
    \E es \in DhtEntryLists :
        /\ dht' = [dht EXCEPT ![1] = MergeEntries(@, es)]
        /\ dhtOp' = [op |-> "merge", entries |-> es, before |-> dht[1]]
        /\ UNCHANGED <<iterOrder, fs, chan, eof, conn, last, client, script, repl>>

DhtNext == DhtRegister \/ DhtMerge

DhtSpec == DhtInit /\ [][DhtNext]_vars

\* C10: from any index state, register(fileId, peer) applied twice leaves
\* lookup(fileId) and exportAll() as after one application, and mergeAll of an
\* entry list (one that repeats an entry included) applied twice leaves the
\* index as after one application.
C10_Idempotent ==
    /\ \A f \in FileIds, a \in DhtAddrs :
          LET once == RegisterFileLocation(dht[1], f, a)
              twice == RegisterFileLocation(once, f, a)
          IN /\ GetFileLocations(twice, f) = GetFileLocations(once, f)
             /\ AllEntries(twice, iterOrder[1]) = AllEntries(once, iterOrder[1])
    /\ \A es \in DhtEntryLists :
          MergeEntries(MergeEntries(dht[1], es), es) = MergeEntries(dht[1], es)

\* A list that repeats an entry has been merged into an index that held the
\* entry already, and the index is as it was.
C10_Witness ==
    /\ dhtOp.op = "merge"
    /\ Len(dhtOp.entries) = 2
    /\ dhtOp.entries[1] = dhtOp.entries[2]
    /\ dhtOp.entries[1] \in ExportSet(dhtOp.before)
    /\ dht[1] = dhtOp.before

-----------------------------------------------------------------------------
(* Pushing a chunk: send_chunk_to_peer of peer/connection.rs *)

\* format!("{}:{}:{}:", file_id, chunk_index, chunk_data.len()) and the data.
PushFrame(fid, index, data) ==
    <<FormatUuid(fid), COLON, FormatUsize(index), COLON, FormatUsize(Len(data)), COLON>>
        \o data

\* The link send_chunk_to_peer dials: whether connect succeeds, where
\* write_all fails if it does, and the bytes the peer sends before it closes.
NoLink == [connect |-> FALSE, write |-> "ok", reply |-> <<>>]

\* With any two bytes taken as the acknowledgment.
SendChunkAnyAck(store, storage_dir, fid, index, link) ==
    IF ~link.connect THEN [ok |-> FALSE, sent |-> <<>>]
    ELSE LET c == GetChunk(store, storage_dir, index)
             message == <<FormatUuid(fid), COLON, FormatUsize(index), COLON,
                          FormatUsize(Len(c.data)), COLON>>
         IN IF ~c.ok THEN [ok |-> FALSE, sent |-> <<>>]
            ELSE IF link.write = "fail_header" THEN [ok |-> FALSE, sent |-> <<>>]
            ELSE IF link.write = "fail_data" THEN [ok |-> FALSE, sent |-> message]
            ELSE [ok |-> Len(link.reply) >= 2, sent |-> message \o c.data]

\* send_chunk_to_peer over a link: connect, get_chunk from storage_dir, the
\* two write_all, read_exact of two bytes and their comparison with OK.
SendChunkOver(store, storage_dir, fid, index, link) ==
    IF ~link.connect THEN [ok |-> FALSE, sent |-> <<>>]
    ELSE LET c == GetChunk(store, storage_dir, index)
             message == <<FormatUuid(fid), COLON, FormatUsize(index), COLON,
                          FormatUsize(Len(c.data)), COLON>>
         IN IF ~c.ok THEN [ok |-> FALSE, sent |-> <<>>]
            ELSE IF link.write = "fail_header" THEN [ok |-> FALSE, sent |-> <<>>]
            ELSE IF link.write = "fail_data" THEN [ok |-> FALSE, sent |-> message]
            ELSE [ok |-> Len(link.reply) >= 2 /\ SubSeq(link.reply, 1, 2) = <<"O", "K">>,
                  sent |-> message \o c.data]

\* What the dialled peer does: it refuses the connection, or accepts and
\* then answers OK, answers two other bytes, or closes without two bytes.
PeerBehaviours == {"refuse", "ack_ok", "ack_other", "close"}

LinkOf(behaviour) ==
    [connect |-> behaviour # "refuse", write |-> "ok",
     reply |-> CASE behaviour = "ack_ok" -> <<"O", "K">>
                 [] behaviour = "ack_other" -> <<"N", "O">>
                 [] OTHER -> <<>>]

\* send_chunk_to_peer against a peer of the given behaviour.
SendChunkToPeer(store, storage_dir, fid, index, behaviour) ==
    SendChunkOver(store, storage_dir, fid, index, LinkOf(behaviour))

-----------------------------------------------------------------------------
(* The replication engine: file_manager/replication.rs *)

REPLICATION_FACTOR == 2

\* The most candidate peers, and the most chunk indices, of ReplSpec.
MaxPeers == 3
MaxChunks == 3

\* String::contains(&file_id.to_string())
Contains(address, text) == \E k \in 1..Len(address) : address[k] = text

\* The peers the filter of select_peers_for_replication keeps.
AvailablePeers(peers, fid) ==
    SelectSeq(peers, LAMBDA a : ~Contains(a, FormatUuid(fid)))

\* Without the test for too few peers: whatever is available, at most the factor.
SelectBestEffort(peers, fid, chunk_index) ==
    LET available == AvailablePeers(peers, fid)
    IN [ok |-> TRUE,
        peers |-> SubSeq(available, 1,
                         IF Len(available) < REPLICATION_FACTOR
                         THEN Len(available) ELSE REPLICATION_FACTOR),
        required |-> 0, available |-> 0, chunkIndex |-> 0]

\* select_peers_for_replication: the first REPLICATION_FACTOR available
\* peers, or the error naming the chunk, the factor and the number available.
SelectPeersForReplication(peers, fid, chunk_index) ==
    LET available == AvailablePeers(peers, fid)
    IN IF Len(available) < REPLICATION_FACTOR
       THEN [ok |-> FALSE, peers |-> <<>>, required |-> REPLICATION_FACTOR,
             available |-> Len(available), chunkIndex |-> chunk_index]
       ELSE [ok |-> TRUE, peers |-> SubSeq(available, 1, REPLICATION_FACTOR),
             required |-> 0, available |-> 0, chunkIndex |-> 0]

\* get_total_chunks: the number of chunk files in <storage_dir>/<file_id>.
GetTotalChunks(store, storage_dir, fid) ==
    LET l == ListChunks(store, Join(storage_dir, <<FormatUuid(fid)>>))
    IN [ok |-> l.ok, total |-> Len(l.indices)]

ReplOk == [ok |-> TRUE, kind |-> "Ok", required |-> 0, available |-> 0, chunkIndex |-> 0]
ReplIoError == [ok |-> FALSE, kind |-> "IoError", required |-> 0, available |-> 0,
                chunkIndex |-> 0]
ReplPushError == [ok |-> FALSE, kind |-> "PushError", required |-> 0, available |-> 0,
                  chunkIndex |-> 0]

\* The head of the loop over 0..total: the call returns Ok after the last
\* chunk, returns the selection's error, or goes on to push chunk_index.
EnterChunk(r, chunk_index) ==
    IF chunk_index >= r.total
    THEN [r EXCEPT !.pc = "done", !.result = ReplOk]
    ELSE LET sel == SelectPeersForReplication(r.peers, r.fid, chunk_index)
         IN IF ~sel.ok
            THEN [r EXCEPT !.pc = "done",
                           !.result = [ok |-> FALSE, kind |-> "InsufficientPeers",
                                       required |-> sel.required,
                                       available |-> sel.available,
                                       chunkIndex |-> sel.chunkIndex]]
            ELSE [r EXCEPT !.pc = "push", !.chunk = chunk_index,
                           !.selected = sel.peers, !.k = 1]

\* With the push's error returned by the call.
AfterPushAbort(r, res) ==
    LET r1 == [r EXCEPT !.attempts = Append(@, [chunk |-> r.chunk,
                                                 peer |-> r.selected[r.k],
                                                 ok |-> res.ok, sent |-> res.sent])]
    IN IF ~res.ok THEN [r1 EXCEPT !.pc = "done", !.result = ReplPushError]
       ELSE IF r.k < Len(r.selected) THEN [r1 EXCEPT !.k = r.k + 1]
       ELSE EnterChunk(r1, r.chunk + 1)

\* The body of the loop over the selected peers: the push's result is
\* logged, and the loop goes on with the next peer or the next chunk.
AfterPush(r, res) ==
    LET r1 == [r EXCEPT !.attempts = Append(@, [chunk |-> r.chunk,
                                                 peer |-> r.selected[r.k],
                                                 ok |-> res.ok, sent |-> res.sent])]
    IN IF r.k < Len(r.selected) THEN [r1 EXCEPT !.k = r.k + 1]
       ELSE EnterChunk(r1, r.chunk + 1)

\* The candidate peers: two dialable peers and one whose address holds the
\* text of the file identifier.
ReplAddrs == {PeerAddr1, <<"10.0.0.2", COLON, "8082">>, <<"f1", COLON, "8083">>}

\* The directory replicate_chunks is given: the storage root, as upload_file
\* passes it, or the file's own directory, as the tests of the module pass it.
ReplDirs == {StorageRoot, FileDir(StorageRoot, "f1")}

ReplInit ==
    /\ dht = [n \in Nodes |-> EmptyDht]
    /\ iterOrder = [n \in Nodes |-> <<"f1", "f2">>]
    /\ \E stored \in SUBSET (0..(MaxChunks - 1)) :
          fs = [n \in Nodes |-> IF n = 1 THEN StoreWith("f1", stored, <<"x">>) ELSE NoFiles]
    /\ chan = [n \in Nodes |-> <<>>]
    /\ eof = [n \in Nodes |-> FALSE]
    /\ conn = [n \in Nodes |-> NoConn]
    /\ last = [n \in Nodes |-> <<>>]
    /\ client = NoClient
    /\ script = <<>>
    /\ \E peers \in SeqUpTo(ReplAddrs, MaxPeers), dir \in ReplDirs :
          repl = [pc |-> "start", peers |-> peers, dir |-> dir, fid |-> "f1",
                  total |-> 0, chunk |-> 0, selected |-> <<>>, k |-> 0,
                  attempts |-> <<>>, result |-> ReplOk]
    /\ dhtOp = NoDhtOp

\* replicate_chunks from its call to its first push or its return.
ReplCall ==
    /\ repl.pc = "start"
    /\ LET t == GetTotalChunks(fs[1], repl.dir, repl.fid)
       IN repl' = IF ~t.ok
                  THEN [repl EXCEPT !.pc = "done", !.result = ReplIoError]
                  ELSE EnterChunk([repl EXCEPT !.total = t.total], 0)
    /\ UNCHANGED <<dht, iterOrder, fs, chan, eof, conn, last, client, script, dhtOp>>

\* One send_chunk_to_peer, and replicate_chunks up to the next one or its return.
ReplPush ==
    /\ repl.pc = "push"
    /\ \E b \in PeerBehaviours :
          repl' = AfterPush(repl, SendChunkToPeer(fs[1], repl.dir, repl.fid,
                                                  repl.chunk, b))
    /\ UNCHANGED <<dht, iterOrder, fs, chan, eof, conn, last, client, script, dhtOp>>

ReplNext == ReplCall \/ ReplPush

ReplSpec == ReplInit /\ [][ReplNext]_vars

\* The candidate peers that remain eligible after self-exclusion.
Eligible == {k \in 1..Len(repl.peers) : ~Contains(repl.peers[k], FormatUuid(repl.fid))}

\* The chunk indices stored for the file under the directory replicate enumerates.
StoredChunks == ListChunks(fs[1], Join(repl.dir, <<FormatUuid(repl.fid)>>))

\* C7 as claimed: for a file with any number of stored chunks, fewer than
\* REPLICATION_FACTOR eligible peers make replicate return the
\* InsufficientPeers error with required = 2, the available count and the
\* chunk index, and nothing has been pushed.
C7_AnyNumberOfChunks ==
    (repl.pc = "done" /\ StoredChunks.ok /\ Cardinality(Eligible) < REPLICATION_FACTOR)
        => /\ repl.result = [ok |-> FALSE, kind |-> "InsufficientPeers",
                             required |-> 2, available |-> Cardinality(Eligible),
                             chunkIndex |-> 0]
           /\ repl.attempts = <<>>

\* C7 (amended): for a file with at least one stored chunk, fewer than
\* REPLICATION_FACTOR eligible peers make replicate return the
\* InsufficientPeers error with required = 2, the available count and chunk
\* index 0, and no push is ever attempted.
C7_InsufficientPeers ==
    (StoredChunks.ok /\ Len(StoredChunks.indices) >= 1
        /\ Cardinality(Eligible) < REPLICATION_FACTOR)
        => /\ repl.attempts = <<>>
           /\ repl.pc \in {"start", "done"}
           /\ repl.pc = "done" =>
                 repl.result = [ok |-> FALSE, kind |-> "InsufficientPeers",
                                required |-> 2, available |-> Cardinality(Eligible),
                                chunkIndex |-> 0]

\* replicate has returned for a file of two chunks and a candidate list whose
\* one eligible peer stands beside an excluded one.
C7_Witness ==
    /\ repl.pc = "done"
    /\ StoredChunks.ok /\ Len(StoredChunks.indices) = 2
    /\ Len(repl.peers) = 2
    /\ Cardinality(Eligible) = 1
    /\ repl.result.kind = "InsufficientPeers"

\* The pairs (chunk index, peer) of the pushes attempted so far, in order.
AttemptPairs == [k \in 1..Len(repl.attempts) |->
                    <<repl.attempts[k].chunk, repl.attempts[k].peer>>]

\* C8: with at least REPLICATION_FACTOR eligible peers replicate returns
\* success and every stored chunk (here: of a file stored without gaps) has
\* been pushed to exactly REPLICATION_FACTOR distinct eligible peers.
C8_DistinctPeers ==
    (repl.pc = "done" /\ StoredChunks.ok
        /\ Cardinality(Eligible) >= REPLICATION_FACTOR
        /\ \A k \in 1..Len(StoredChunks.indices) : StoredChunks.indices[k] = k - 1)
        => /\ repl.result.ok
           /\ \A i \in Range(StoredChunks.indices) :
                 LET to == {repl.attempts[k].peer :
                               k \in {j \in 1..Len(repl.attempts) :
                                         repl.attempts[j].chunk = i}}
                 IN /\ Cardinality(to) = REPLICATION_FACTOR
                    /\ \A a \in to : ~Contains(a, FormatUuid(repl.fid))

\* The pushes replicate makes when none aborts it: for each index below the
\* number of stored chunks, the first REPLICATION_FACTOR eligible peers in
\* candidate order.
RECURSIVE AllPairs(_, _, _)
AllPairs(from, total, targets) ==
    IF from >= total THEN <<>>
    ELSE [k \in 1..Len(targets) |-> <<from, targets[k]>>]
            \o AllPairs(from + 1, total, targets)

\* C9: a failed push does not abort replicate: with enough eligible peers
\* the pushes attempted are always a prefix of all (chunk index, selected
\* peer) pairs in chunk-index order and peer order, the call returns only
\* after the last of them, and it returns success whatever the pushes did.
C9_FailedPushGoesOn ==
    (repl.pc # "start" /\ StoredChunks.ok /\ Cardinality(Eligible) >= REPLICATION_FACTOR)
        => LET first == SortedSeq(Eligible)
               targets == <<repl.peers[first[1]], repl.peers[first[2]]>>
               all == AllPairs(0, Len(StoredChunks.indices), targets)
           IN /\ Len(AttemptPairs) <= Len(all)
              /\ AttemptPairs = SubSeq(all, 1, Len(AttemptPairs))
              /\ repl.pc = "done" => (AttemptPairs = all /\ repl.result = ReplOk)

\* replicate has returned success after four pushes that all failed.
C9_Witness ==
    /\ repl.pc = "done"
    /\ repl.result = ReplOk
    /\ Len(repl.attempts) = 4
    /\ \A k \in 1..4 : ~repl.attempts[k].ok

\* C27: called with the storage root, as upload_file calls it, replicate
\* reads each chunk it pushes from the directory it counted the chunks in:
\* the push of a counted chunk to a peer that accepts and acknowledges
\* finds the chunk file and succeeds.
C27_SameDirectory ==
    (repl.pc # "none" /\ repl.dir = StorageRoot /\ StoredChunks.ok)
        => \A k \in 1..Len(repl.attempts) :
              repl.attempts[k].chunk \in Range(StoredChunks.indices)
                 => SendChunkToPeer(fs[1], repl.dir, repl.fid, repl.attempts[k].chunk,
                                    "ack_ok").ok

\* C28: when replicate has returned success, the chunk indices it
\* attempted to push are exactly the indices list_chunks reports for the
\* file, also when these have gaps.
C28_PushesStoredIndices ==
    (repl.pc = "done" /\ repl.result.ok /\ StoredChunks.ok)
        => {repl.attempts[k].chunk : k \in 1..Len(repl.attempts)}
              = Range(StoredChunks.indices)

-----------------------------------------------------------------------------
(* The connection task: handle_connection of peer/connection.rs *)

\* The hex text of a fresh 12-byte nonce: its first byte, its second byte
\* and the rest of it.
Nonces == {<<"a", "3", "9c1e">>, <<"0", "f", "77b2">>}

\* format!("{}:{}\n", nonce, encrypted_welcome), then b"DHT_REQUEST\n".
Handshake(nonce) == nonce \o <<COLON, "c0ffee", NL>> \o <<"DHT_REQUEST", NL>>

\* The concatenation of a sequence of sequences.
RECURSIVE Concat(_)
Concat(seqs) == IF seqs = <<>> THEN <<>> ELSE Head(seqs) \o Concat(Tail(seqs))

\* With the number of files announced instead of the number of entries.
ExportLinesPerFile(map, order) ==
    LET es == AllEntries(map, order)
    IN <<"DHT_RESPONSE", COLON, FormatUsize(Cardinality(DOMAIN map)), NL>>
       \o Concat([k \in 1..Len(es) |->
                     <<FormatUuid(es[k][1]), COLON>> \o es[k][2] \o <<NL>>])

\* "DHT_RESPONSE:<N>\n", then one line "<fid>:<addr>\n" per entry of all_entries.
ExportLines(map, order) ==
    LET es == AllEntries(map, order)
    IN <<"DHT_RESPONSE", COLON, FormatUsize(Len(es)), NL>>
       \o Concat([k \in 1..Len(es) |->
                     <<FormatUuid(es[k][1]), COLON>> \o es[k][2] \o <<NL>>])

\* With the size field left out of the header.
ChunkRequestReplyNoSize(store, line_str) ==
    LET parts == Split(line_str)
    IN IF Len(parts) = 3 /\ ParseUuidOk(parts[2]) /\ ParseUsizeOk(parts[3])
       THEN LET fid == ParseUuid(parts[2])
                chunk_index == ParseUsize(parts[3])
                c == GetChunk(store, Join(StorageRoot, <<FormatUuid(fid)>>), chunk_index)
            IN IF c.ok
               THEN <<"CHUNK_RESPONSE", COLON, FormatUuid(fid), COLON,
                      FormatUsize(chunk_index), COLON>> \o c.data
               ELSE <<>>
       ELSE <<>>

\* The bytes written for a line that starts with "CHUNK_REQUEST:".
ChunkRequestReply(store, line_str) ==
    LET parts == Split(line_str)
    IN IF Len(parts) = 3 /\ ParseUuidOk(parts[2]) /\ ParseUsizeOk(parts[3])
       THEN LET fid == ParseUuid(parts[2])
                chunk_index == ParseUsize(parts[3])
                c == GetChunk(store, Join(StorageRoot, <<FormatUuid(fid)>>), chunk_index)
            IN IF c.ok
               THEN <<"CHUNK_RESPONSE", COLON, FormatUuid(fid), COLON,
                      FormatUsize(chunk_index), COLON, FormatUsize(Len(c.data)), COLON>>
                    \o c.data
               ELSE <<>>
       ELSE <<>>

\* buffer.drain(..=pos): the first line with its newline, and what is left.
DrainLine(buf) ==
    [line |-> SubSeq(buf, 1, PosNL(buf)), rest |-> SubSeq(buf, PosNL(buf) + 1, Len(buf))]

\* One dispatched line: its trimmed text, the branch taken, the bytes written.
\* On a stream whose writes fail (s.wfail) the first write_all returns the
\* error and `?` ends the task.
Dispatched(s, line_str, kind, reply) ==
    IF s.wfail /\ reply # <<>>
    THEN [s EXCEPT !.pc = "closed",
                   !.disp = Append(@, [line |-> line_str, kind |-> kind, reply |-> <<>>])]
    ELSE [s EXCEPT !.out = @ \o reply,
                   !.disp = Append(@, [line |-> line_str, kind |-> kind, reply |-> reply])]

RECURSIVE ProcLines(_, _, _)
RECURSIVE ProcEntries(_, _, _)
RECURSIVE ProcLinesOf(_, _, _)
RECURSIVE ProcEntriesOf(_, _, _)

\* The for loop over 0..n of the DHT_RESPONSE branch, from the state s it
\* was left in: read_line per entry, then merge_entries and the reply.  It
\* stops with pc = "entry" where read_line has to read from the stream.
ProcEntriesOf(s, store, order) ==
    IF s.pc = "closed" THEN s
    ELSE IF s.need = 0
    THEN LET merged == MergeEntries(s.dht, s.entries)
             s1 == Dispatched([s EXCEPT !.dht = merged, !.entries = <<>>,
                                        !.header = <<>>, !.respDone = TRUE],
                              s.header, "dht_response", ExportLines(merged, order))
         IN ProcLines(s1, store, order)
    ELSE IF PosNL(s.buffer) = 0 THEN [s EXCEPT !.pc = "entry"]
    ELSE LET d == DrainLine(s.buffer)
             eparts == Split(Trim(d.line))
             got == IF Len(eparts) = 2 /\ ParseUuidOk(eparts[1])
                    THEN <<<<ParseUuid(eparts[1]), eparts[2]>>>>
                    ELSE <<>>
         IN ProcEntries([s EXCEPT !.buffer = d.rest, !.need = @ - 1,
                                  !.entries = @ \o got], store, order)

\* The while loop over the complete lines of the buffer.  It stops with
\* pc = "read" when the buffer holds no newline.
ProcLinesOf(s, store, order) ==
    IF s.pc = "closed" THEN s
    ELSE IF PosNL(s.buffer) = 0 THEN [s EXCEPT !.pc = "read"]
    ELSE LET d == DrainLine(s.buffer)
             line_str == Trim(d.line)
             parts == Split(line_str)
             s1 == [s EXCEPT !.buffer = d.rest]
         IN IF StartsWith(line_str, <<"DHT_RESPONSE", COLON>>)
            THEN IF Len(parts) = 2
                 THEN ProcEntries([s1 EXCEPT
                                      !.need = IF ParseUsizeOk(parts[2])
                                               THEN ParseUsize(parts[2]) ELSE 0,
                                      !.entries = <<>>, !.header = line_str],
                                  store, order)
                 ELSE ProcLines(Dispatched(s1, line_str, "ignored", <<>>), store, order)
            ELSE IF line_str = <<"DHT_REQUEST">>
            THEN ProcLines(Dispatched(s1, line_str, "dht_request",
                                      ExportLines(s1.dht, order)), store, order)
            ELSE IF StartsWith(line_str, <<"CHUNK_REQUEST", COLON>>)
            THEN ProcLines(Dispatched(s1, line_str, "chunk_request",
                                      ChunkRequestReply(store, line_str)), store, order)
            ELSE IF StartsWith(line_str, <<"CHUNK_RESPONSE", COLON>>)
            THEN ProcLines(Dispatched(s1, line_str, "chunk_response", <<>>), store, order)
            ELSE IF Len(parts) = 2
            THEN ProcLines(Dispatched(s1, line_str, "text", <<>>), store, order)
            ELSE ProcLines(Dispatched(s1, line_str, "ignored", <<>>), store, order)

\* The two loops applied to the value of a task's state.
ProcEntries(s0, store, order) ==
    CHOOSE r \in {ProcEntriesOf(s, store, order) : s \in {s0}} : TRUE

ProcLines(s0, store, order) ==
    CHOOSE r \in {ProcLinesOf(s, store, order) : s \in {s0}} : TRUE

\* The task before its first step.
NewConn == [pc |-> "start", buffer |-> <<>>, need |-> 0, entries |-> <<>>,
            header |-> <<>>, respDone |-> FALSE]

\* What stream.read can return: any number of the bytes that have arrived,
\* at least one; 0 when none is left and the other end has gone.
ReadSizes(n) ==
    IF chan[n] # <<>> THEN 1..Len(chan[n])
    ELSE IF eof[n] THEN {0}
    ELSE {}

\* handle_connection up to its first read: the welcome line and DHT_REQUEST.
HandlerStart(n) ==
    /\ conn[n].pc = "start"
    /\ \E nonce \in Nonces :
          chan' = [chan EXCEPT ![Other(n)] = @ \o Handshake(nonce)]
    /\ conn' = [conn EXCEPT ![n].pc = "read"]
    /\ UNCHANGED <<dht, iterOrder, fs, eof, last, client, script, repl, dhtOp>>

\* As HandlerAfterReadW, but read_line takes a read of 0 bytes for the end
\* of the entry lines and the task goes back to its main loop.
HandlerAfterReadLenient(c, map, bytes, k, store, order, wfail) ==
    LET s0 == [pc |-> c.pc, buffer |-> c.buffer \o bytes,
               need |-> c.need, entries |-> c.entries,
               header |-> c.header, respDone |-> c.respDone,
               dht |-> map, out |-> <<>>, disp |-> <<>>, wfail |-> wfail]
    IN IF k = 0
       THEN IF c.pc = "entry" THEN [s0 EXCEPT !.pc = "read", !.need = 0]
            ELSE [s0 EXCEPT !.pc = "closed"]
       ELSE IF c.pc = "read" THEN ProcLines(s0, store, order)
       ELSE ProcEntries(s0, store, order)

\* The task c, with index map, after a stream.read that returned the k
\* bytes read: the loop it was in runs on until the next read or until a
\* write fails (wfail: the stream's writes fail).
HandlerAfterReadW(c, map, bytes, k, store, order, wfail) ==
    LET s0 == [pc |-> c.pc, buffer |-> c.buffer \o bytes,
               need |-> c.need, entries |-> c.entries,
               header |-> c.header, respDone |-> c.respDone,
               dht |-> map, out |-> <<>>, disp |-> <<>>, wfail |-> wfail]
    IN IF k = 0 THEN [s0 EXCEPT !.pc = "closed"]
       ELSE IF c.pc = "read" THEN ProcLines(s0, store, order)
       ELSE ProcEntries(s0, store, order)

\* With a buffer that is new at every read: what a read left of a line is
\* not kept for the next.
HandlerAfterReadFreshBuffer(c, map, bytes, k, store, order) ==
    HandlerAfterReadW([c EXCEPT !.buffer = <<>>], map, bytes, k, store, order, FALSE)

\* The same on a stream whose writes succeed.
HandlerAfterRead(c, map, bytes, k, store, order) ==
    HandlerAfterReadW(c, map, bytes, k, store, order, FALSE)

\* One stream.read of the task (the one of the main loop or the one of
\* read_line) and everything it does before it reads again: a read of 0
\* bytes ends the task.
HandlerRecv(n) ==
    /\ conn[n].pc \in {"read", "entry"}
    /\ \E k \in ReadSizes(n) :
          \E s1 \in {HandlerAfterRead(conn[n], dht[n], SubSeq(chan[n], 1, k), k,
                                      fs[n], iterOrder[n])} :
             /\ conn' = [conn EXCEPT ![n] = [pc |-> s1.pc, buffer |-> s1.buffer,
                                             need |-> s1.need, entries |-> s1.entries,
                                             header |-> s1.header,
                                             respDone |-> s1.respDone]]
             /\ dht' = [dht EXCEPT ![n] = s1.dht]
             /\ chan' = [chan EXCEPT ![n] = SubSeq(@, k + 1, Len(@)),
                                     ![Other(n)] = @ \o s1.out]
             /\ last' = [last EXCEPT ![n] = s1.disp]
             /\ eof' = IF k = 0 THEN [eof EXCEPT ![Other(n)] = TRUE] ELSE eof
    /\ UNCHANGED <<iterOrder, fs, client, script, repl, dhtOp>>

-----------------------------------------------------------------------------
(* GossipSpec: two nodes joined by one link, a connection task at each end *)

\* The most entries of a node's index at the start.
MaxIndex == 1

GossipEntries == {<<"f1", LocalAddr>>, <<"f2", PeerAddr1>>, <<"f1", BareAddr>>}

\* The indexes a node can start with.
StartIndexes == {MergeEntries(EmptyDht, es) : es \in SeqUpTo(GossipEntries, MaxIndex)}

GossipInit ==
    /\ dht \in [Nodes -> StartIndexes]
    /\ iterOrder = [n \in Nodes |-> <<"f1", "f2">>]
    /\ fs = [n \in Nodes |-> NoFiles]
    /\ chan = [n \in Nodes |-> <<>>]
    /\ eof = [n \in Nodes |-> FALSE]
    /\ conn = [n \in Nodes |-> NewConn]
    /\ last = [n \in Nodes |-> <<>>]
    /\ client = NoClient
    /\ script = <<>>
    /\ repl = NoRepl
    /\ dhtOp = NoDhtOp

GossipNext == \E n \in Nodes : HandlerStart(n) \/ HandlerRecv(n)

GossipSpec == GossipInit /\ [][GossipNext]_vars

\* The same two tasks from an index of at most one host:port entry at each
\* node; the tasks are scheduled whenever they can run, and the link delivers.
GossipFairInit ==
    /\ GossipInit
    /\ dht[1] \in {EmptyDht, MergeEntries(EmptyDht, <<<<"f1", LocalAddr>>>>)}
    /\ dht[2] = EmptyDht

GossipFairSpec ==
    /\ GossipFairInit
    /\ [][GossipNext]_vars
    /\ \A n \in Nodes : WF_vars(HandlerStart(n) \/ HandlerRecv(n))

\* Every address of the index is a host:port text.
AllHostPort(map) ==
    \A e \in ExportSet(map) : Len(e[2]) = 3 /\ e[2][2] = COLON

\* C1: two nodes whose indexes hold host:port addresses have each sent
\* DHT_REQUEST and answered with DHT_RESPONSE; once each has processed a
\* DHT_RESPONSE, exportAll() returns the same set of pairs on both.
C1_Converged ==
    (conn[1].respDone /\ conn[2].respDone
        /\ AllHostPort(dht[1]) /\ AllHostPort(dht[2]))
        => ExportSet(dht[1]) = ExportSet(dht[2])

\* A DHT_RESPONSE is on its way to a task, waits in its buffer, or is being
\* read by it entry by entry.
RespInFlight ==
    \E n \in Nodes :
        \/ "DHT_RESPONSE" \in Range(chan[n]) \cup Range(conn[n].buffer)
        \/ conn[n].pc = "entry"

\* C2: the DHT_RESPONSE messages the two handshake DHT_REQUESTs trigger form
\* a finite sequence: from some point on no DHT_RESPONSE is sent, so none is
\* in flight any more.
C2_ResponsesCease == <>[](~RespInFlight)

-----------------------------------------------------------------------------
(* PushSpec: send_chunk_to_peer at endpoint 2 dials node 1, whose end of the
   link is served by handle_connection *)

\* Chunk contents: plain bytes, bytes with a newline, bytes that spell a
\* control line, bytes that spell a CHUNK_RESPONSE header line.
Payloads ==
    { <<"x", "y", "z">>,
      <<"x", NL, "y">>,
      <<NL, "DHT_REQUEST", NL>>,
      <<NL, "CHUNK_RESPONSE", COLON, "f1", COLON, "0", COLON, "1", NL, "x">> }

\* What read_exact(&mut ack) can do: nothing until two bytes have arrived,
\* unless the other end has gone.
AckReady == Len(chan[2]) >= 2 \/ eof[2]

PushInit ==
    /\ dht = [n \in Nodes |-> EmptyDht]
    /\ iterOrder = [n \in Nodes |-> <<"f1", "f2">>]
    /\ \E data \in Payloads :
          fs = [n \in Nodes |-> IF n = 2 THEN StoreWith("f1", {0}, data)
                                ELSE InitializeStorage(NoFiles, StorageRoot, "f1")]
    /\ chan = [n \in Nodes |-> <<>>]
    /\ eof = [n \in Nodes |-> FALSE]
    /\ conn = [n \in Nodes |-> IF n = 1 THEN NewConn ELSE NoConn]
    /\ last = [n \in Nodes |-> <<>>]
    /\ client = [kind |-> "pusher", pc |-> "send", dir |-> FileDir(StorageRoot, "f1"),
                 fid |-> "f1", index |-> 0, result |-> "none", sent |-> <<>>]
    /\ script = <<>>
    /\ repl = NoRepl
    /\ dhtOp = NoDhtOp

\* send_chunk_to_peer up to read_exact: get_chunk, then the frame is written.
PusherSend ==
    /\ client.kind = "pusher" /\ client.pc = "send"
    /\ LET r == SendChunkToPeer(fs[2], client.dir, client.fid, client.index, "ack_ok")
       IN /\ chan' = [chan EXCEPT ![1] = @ \o r.sent]
          /\ client' = IF r.ok
                       THEN [client EXCEPT !.pc = "ack", !.sent = r.sent]
                       ELSE [client EXCEPT !.pc = "done", !.result = "Err"]
          /\ eof' = IF r.ok THEN eof ELSE [eof EXCEPT ![1] = TRUE]
    /\ UNCHANGED <<dht, iterOrder, fs, conn, last, script, repl, dhtOp>>

\* read_exact of the two bytes and the comparison with b"OK"; the stream is
\* dropped when the call returns.
PusherAck ==
    /\ client.kind = "pusher" /\ client.pc = "ack"
    /\ AckReady
    /\ LET got == Len(chan[2]) >= 2
           ack == IF got THEN SubSeq(chan[2], 1, 2) ELSE <<>>
       IN /\ client' = [client EXCEPT !.pc = "done",
                           !.result = IF ack = <<"O", "K">> THEN "Ok" ELSE "Err"]
          /\ chan' = [chan EXCEPT ![2] = IF got THEN SubSeq(@, 3, Len(@)) ELSE @]
    /\ eof' = [eof EXCEPT ![1] = TRUE]
    /\ UNCHANGED <<dht, iterOrder, fs, conn, last, script, repl, dhtOp>>

PushNext == HandlerStart(1) \/ HandlerRecv(1) \/ PusherSend \/ PusherAck

PushSpec == PushInit /\ [][PushNext]_vars

\* C3: once send_chunk_to_peer has written the frame of chunk (fileId, index)
\* and returned, it has returned success and the peer's store holds the
\* payload, byte for byte, under (fileId, index).
C3_PushStoredAndAcked ==
    (client.kind = "pusher" /\ client.pc = "done" /\ client.sent # <<>>)
        => /\ client.result = "Ok"
           /\ GetChunk(fs[1], FileDir(StorageRoot, client.fid), client.index)
                = GetChunk(fs[2], client.dir, client.index)

-----------------------------------------------------------------------------
(* FetchSpec: fetch_chunk_from_peer at endpoint 2 dials node 1, which holds
   the chunk and serves its end of the link with handle_connection *)

\* The bytes the fetcher has read and not yet drained hold `expected` bytes
\* or more: save_chunk of the first `expected` under the requested index.
FetchSave(c, store, buf) ==
    LET chunk_data == SubSeq(buf, 1, c.expected)
        rest == SubSeq(buf, c.expected + 1, Len(buf))
    IN IF SaveChunkOk(store, c.dir)
       THEN [client |-> [c EXCEPT !.pc = "done", !.result = "Ok", !.buffer = rest],
             store |-> SaveChunk(store, c.dir, c.index, chunk_data)]
       ELSE [client |-> [c EXCEPT !.pc = "done", !.result = "Err", !.buffer = rest],
             store |-> store]

\* while buffer.len() < expected_length: another read is needed, or the
\* chunk is drained and saved.
FetchInner(c, store, buf) ==
    IF Len(buf) < c.expected
    THEN [client |-> [c EXCEPT !.pc = "inner", !.buffer = buf], store |-> store]
    ELSE FetchSave(c, store, buf)

\* The fetcher c after a stream.read that returned the k bytes read: at most
\* one line is taken from the buffer per read of the outer loop.
FetcherAfterRead(c, store, bytes, k) ==
    LET buf == c.buffer \o bytes
    IN IF k = 0
       THEN [client |-> [c EXCEPT !.pc = "done", !.result = "Err"], store |-> store]
       ELSE IF c.pc = "inner" THEN FetchInner(c, store, buf)
       ELSE IF PosNL(buf) = 0
       THEN [client |-> [c EXCEPT !.buffer = buf], store |-> store]
       ELSE LET d == DrainLine(buf)
                line_str == Trim(d.line)
                parts == Split(line_str)
            IN IF StartsWith(line_str, <<"CHUNK_RESPONSE", COLON>>) /\ Len(parts) = 4
               THEN IF ParseUsizeOk(parts[4])
                    THEN FetchInner([c EXCEPT !.expected = ParseUsize(parts[4])],
                                    store, d.rest)
                    ELSE [client |-> [c EXCEPT !.pc = "done", !.result = "Err",
                                               !.buffer = d.rest],
                          store |-> store]
               ELSE [client |-> [c EXCEPT !.buffer = d.rest], store |-> store]

FetchInit ==
    /\ dht = [n \in Nodes |-> EmptyDht]
    /\ iterOrder = [n \in Nodes |-> <<"f1", "f2">>]
    /\ \E data \in Payloads :
          fs = [n \in Nodes |-> IF n = 1 THEN StoreWith("f1", {0}, data)
                                ELSE InitializeStorage(NoFiles, StorageRoot, "f1")]
    /\ chan = [n \in Nodes |-> <<>>]
    /\ eof = [n \in Nodes |-> FALSE]
    /\ conn = [n \in Nodes |-> IF n = 1 THEN NewConn ELSE NoConn]
    /\ last = [n \in Nodes |-> <<>>]
    /\ client = [kind |-> "fetcher", pc |-> "send", dir |-> FileDir(StorageRoot, "f1"),
                 fid |-> "f1", index |-> 0, result |-> "none", buffer |-> <<>>,
                 expected |-> 0]
    /\ script = <<>>
    /\ repl = NoRepl
    /\ dhtOp = NoDhtOp

\* fetch_chunk_from_peer up to its first read: the request line is written.
FetcherSend ==
    /\ client.kind = "fetcher" /\ client.pc = "send"
    /\ chan' = [chan EXCEPT ![1] = @ \o <<"CHUNK_REQUEST", COLON, FormatUuid(client.fid),
                                          COLON, FormatUsize(client.index), NL>>]
    /\ client' = [client EXCEPT !.pc = "read"]
    /\ UNCHANGED <<dht, iterOrder, fs, eof, conn, last, script, repl, dhtOp>>

\* One stream.read of the fetcher (outer or inner loop) and what follows it
\* up to the next read or the return, which drops the stream.
FetcherRecv ==
    /\ client.kind = "fetcher" /\ client.pc \in {"read", "inner"}
    /\ \E k \in ReadSizes(2) :
          \E r \in {FetcherAfterRead(client, fs[2], SubSeq(chan[2], 1, k), k)} :
             /\ client' = r.client
             /\ fs' = [fs EXCEPT ![2] = r.store]
             /\ chan' = [chan EXCEPT ![2] = SubSeq(@, k + 1, Len(@))]
             /\ eof' = IF r.client.pc = "done" THEN [eof EXCEPT ![1] = TRUE] ELSE eof
    /\ UNCHANGED <<dht, iterOrder, conn, last, script, repl, dhtOp>>

FetchNext == HandlerStart(1) \/ HandlerRecv(1) \/ FetcherSend \/ FetcherRecv

FetchSpec == FetchInit /\ [][FetchNext]_vars

\* The request has been served and every byte of the link has been read:
\* nothing more will arrive at the fetcher.
FetchQuiet ==
    /\ client.kind = "fetcher" /\ client.pc \in {"read", "inner"}
    /\ conn[1].pc = "read"
    /\ chan[1] = <<>> /\ chan[2] = <<>>

\* C5: the fetcher does not stay waiting once the holder has served its
\* request and all bytes are read, and when it has returned it has returned
\* success with the holder's chunk, byte for byte, in its own store under
\* (fileId, index).
C5_FetchStored ==
    /\ ~FetchQuiet
    /\ (client.kind = "fetcher" /\ client.pc = "done")
          => /\ client.result = "Ok"
             /\ GetChunk(fs[2], client.dir, client.index)
                  = GetChunk(fs[1], FileDir(StorageRoot, client.fid), client.index)

-----------------------------------------------------------------------------
(* RawSpec: node 1 serves a link whose other end writes a sequence of frames
   and then closes *)

\* The most frames the remote end writes.
MaxFrames == 2

\* The chunk node 1 holds: index 0 of file f1.
HeldChunk == <<"x", NL, "y">>

LineFrame(text) == [kind |-> "line", bytes |-> text \o <<NL>>]

BinaryFrame(bytes) == [kind |-> "binary", bytes |-> bytes]

\* Control lines: requests for the held chunk in two spellings, for chunks
\* that are absent, with fields that do not parse or are missing; a gossip
\* request; gossip responses with a count that does not parse and with a
\* field too many; a two-field line that does not decrypt; a line that is
\* no message.
LineFrames ==
    { LineFrame(<<"DHT_REQUEST">>),
      LineFrame(<<"CHUNK_REQUEST", COLON, "f1", COLON, "0">>),
      LineFrame(<<"CHUNK_REQUEST", COLON, "F1", COLON, "00">>),
      LineFrame(<<"CHUNK_REQUEST", COLON, "f1", COLON, "1">>),
      LineFrame(<<"CHUNK_REQUEST", COLON, "f2", COLON, "0">>),
      LineFrame(<<"CHUNK_REQUEST", COLON, "zz", COLON, "0">>),
      LineFrame(<<"CHUNK_REQUEST", COLON, "f1", COLON, "x">>),
      LineFrame(<<"CHUNK_REQUEST", COLON, "f1">>),
      LineFrame(<<"DHT_RESPONSE", COLON, "zz">>),
      LineFrame(<<"DHT_RESPONSE", COLON, "1", COLON, "2">>),
      LineFrame(<<"a3", COLON, "nothex">>),
      LineFrame(<<"hello">>) }

\* Binary-transfer frames: pushes and a chunk response, with payloads that
\* hold newlines and spell control lines.
BinaryFrames ==
    { BinaryFrame(PushFrame("f1", 1, <<"x", "y">>)),
      BinaryFrame(PushFrame("f1", 1, <<NL, "DHT_REQUEST", NL>>)),
      BinaryFrame(PushFrame("f2", 0, <<NL, "CHUNK_REQUEST", COLON, "f1", COLON, "0", NL>>)),
      BinaryFrame(<<"CHUNK_RESPONSE", COLON, "f1", COLON, "0", COLON, "2", COLON,
                    "x", NL>>) }

Frames == LineFrames \cup BinaryFrames

RawInit ==
    /\ dht = [n \in Nodes |-> EmptyDht]
    /\ iterOrder = [n \in Nodes |-> <<"f1", "f2">>]
    /\ fs = [n \in Nodes |-> IF n = 1 THEN StoreWith("f1", {0}, HeldChunk) ELSE NoFiles]
    /\ chan = [n \in Nodes |-> <<>>]
    /\ eof = [n \in Nodes |-> FALSE]
    /\ conn = [n \in Nodes |-> IF n = 1 THEN NewConn ELSE NoConn]
    /\ last = [n \in Nodes |-> <<>>]
    /\ client = NoClient
    /\ \E frames \in SeqUpTo(Frames, MaxFrames) :
          script = [todo |-> frames, sent |-> <<>>]
    /\ repl = NoRepl
    /\ dhtOp = NoDhtOp

\* The remote end writes its next frame.
RawSend ==
    /\ script.todo # <<>>
    /\ chan' = [chan EXCEPT ![1] = @ \o Head(script.todo).bytes]
    /\ script' = [todo |-> Tail(script.todo), sent |-> Append(script.sent, Head(script.todo))]
    /\ UNCHANGED <<dht, iterOrder, fs, eof, conn, last, client, repl, dhtOp>>

\* The remote end closes the link after its last frame.
RawClose ==
    /\ script.todo = <<>>
    /\ ~eof[1]
    /\ eof' = [eof EXCEPT ![1] = TRUE]
    /\ UNCHANGED <<dht, iterOrder, fs, chan, conn, last, client, script, repl, dhtOp>>

RawNext == HandlerStart(1) \/ HandlerRecv(1) \/ RawSend \/ RawClose

RawSpec == RawInit /\ [][RawNext]_vars

\* The branches of the line loop that act on a control line.
ControlKinds == {"dht_request", "dht_response", "chunk_request", "chunk_response"}

\* The control lines the remote end has written as lines.
SentLines == {Trim(f.bytes) : f \in {g \in Range(script.sent) : g.kind = "line"}}

\* C4: a line that the task dispatches as a control line was written as a
\* line by the other end: the payload bytes of a binary frame, newlines and
\* control-line spellings included, are never dispatched.
C4_PayloadNotDispatched ==
    \A k \in 1..Len(last[1]) :
        last[1][k].kind \in ControlKinds => last[1][k].line \in SentLines

\* The fields of a CHUNK_REQUEST line name the chunk (fid, index).
Names(line_str, fid, index) ==
    LET parts == Split(line_str)
    IN /\ Len(parts) = 3
       /\ ParseUuidOk(parts[2]) /\ ParseUuid(parts[2]) = fid
       /\ ParseUsizeOk(parts[3]) /\ ParseUsize(parts[3]) = index

\* The path of chunk (fid, index) in a node's store.
ChunkPath(fid, index) == Join(FileDir(StorageRoot, fid), ChunkFileName(index))

ChunkIndexes == 0..2

\* C6: for a CHUNK_REQUEST line that names a chunk of the local store the
\* task writes CHUNK_RESPONSE:<fileId>:<index>:<size>: and then the stored
\* bytes, size being their number; for one that names an absent chunk, or
\* whose fields do not parse, it writes nothing; in both cases it goes on
\* serving the link.
C6_ChunkRequestReply ==
    \A k \in 1..Len(last[1]) :
        LET r == last[1][k]
            held == {c \in FileIds \X ChunkIndexes :
                        /\ Names(r.line, c[1], c[2])
                        /\ ChunkPath(c[1], c[2]) \in DOMAIN fs[1].files}
        IN r.kind = "chunk_request" =>
              /\ conn[1].pc \in {"read", "entry"}
              /\ \A c \in held :
                    r.reply = <<"CHUNK_RESPONSE", COLON, FormatUuid(c[1]), COLON,
                                FormatUsize(c[2]), COLON,
                                FormatUsize(Len(fs[1].files[ChunkPath(c[1], c[2])])), COLON>>
                              \o fs[1].files[ChunkPath(c[1], c[2])]
              /\ held = {} => r.reply = <<>>

\* The task has answered a request for the held chunk, in a spelling other
\* than the canonical one, and has passed over a request for an absent one.
C6_Witness ==
    /\ Len(last[1]) = 2
    /\ last[1][1].kind = "chunk_request" /\ last[1][1].reply # <<>>
    /\ last[1][1].line = <<"CHUNK_REQUEST", COLON, "F1", COLON, "00">>
    /\ last[1][2].kind = "chunk_request" /\ last[1][2].reply = <<>>

\* A line the protocol has no meaning for: no known prefix and not two
\* fields; a known prefix with a wrong number of fields or a field that
\* does not parse; two fields that are no nonce and ciphertext.
Malformed(line_str) ==
    LET parts == Split(line_str)
    IN IF StartsWith(line_str, <<"DHT_RESPONSE", COLON>>)
       THEN Len(parts) # 2 \/ ~ParseUsizeOk(parts[2])
       ELSE IF line_str = <<"DHT_REQUEST">> THEN FALSE
       ELSE IF StartsWith(line_str, <<"CHUNK_REQUEST", COLON>>)
       THEN Len(parts) # 3 \/ ~ParseUuidOk(parts[2]) \/ ~ParseUsizeOk(parts[3])
       ELSE IF StartsWith(line_str, <<"CHUNK_RESPONSE", COLON>>) THEN FALSE
       ELSE Len(parts) # 2 \/ parts[2] = <<"nothex">>

\* C13: a malformed line is discarded: the task writes no reply for it,
\* the index and the chunk store are as they were, and the task goes on
\* serving the link.
C13_MalformedDiscarded ==
    \A k \in 1..Len(last[1]) :
        Malformed(last[1][k].line) =>
            /\ last[1][k].reply = <<>>
            /\ conn[1].pc \in {"read", "entry"}
            /\ dht[1] = EmptyDht
            /\ fs[1] = StoreWith("f1", {0}, HeldChunk)

-----------------------------------------------------------------------------
(* LifeSpec: the life of the task of node 1 on a link whose other end
   writes frames and closes, and whose reads and writes fail once the other
   end has gone *)

LifeFrames ==
    { LineFrame(<<"DHT_REQUEST">>),
      LineFrame(<<"DHT_RESPONSE", COLON, "1">>),
      LineFrame(<<"DHT_RESPONSE", COLON, "2">>),
      LineFrame(<<"f2", COLON, "node3">>),
      LineFrame(<<"CHUNK_REQUEST", COLON, "f1", COLON, "0">>),
      LineFrame(<<"hello">>),
      BinaryFrame(PushFrame("f1", 1, <<"x", "y">>)) }

LifeInit ==
    /\ dht = [n \in Nodes |-> EmptyDht]
    /\ iterOrder = [n \in Nodes |-> <<"f1", "f2">>]
    /\ fs = [n \in Nodes |-> IF n = 1 THEN StoreWith("f1", {0}, HeldChunk) ELSE NoFiles]
    /\ chan = [n \in Nodes |-> <<>>]
    /\ eof = [n \in Nodes |-> FALSE]
    /\ conn = [n \in Nodes |-> IF n = 1 THEN NewConn ELSE NoConn]
    /\ last = [n \in Nodes |-> <<>>]
    /\ client = NoClient
    /\ \E frames \in SeqUpTo(LifeFrames, MaxFrames) :
          script = [todo |-> frames, sent |-> <<>>]
    /\ repl = NoRepl
    /\ dhtOp = NoDhtOp

\* One stream.read of the task and everything it does before it reads
\* again; once the other end has gone a write_all may return an error.
LifeRecv(n) ==
    /\ conn[n].pc \in {"read", "entry"}
    /\ \E k \in ReadSizes(n), wfail \in (IF eof[n] THEN BOOLEAN ELSE {FALSE}) :
          \E s1 \in {HandlerAfterReadW(conn[n], dht[n], SubSeq(chan[n], 1, k), k,
                                       fs[n], iterOrder[n], wfail)} :
             /\ conn' = [conn EXCEPT ![n] = [pc |-> s1.pc, buffer |-> s1.buffer,
                                             need |-> s1.need, entries |-> s1.entries,
                                             header |-> s1.header,
                                             respDone |-> s1.respDone]]
             /\ dht' = [dht EXCEPT ![n] = s1.dht]
             /\ chan' = [chan EXCEPT ![n] = SubSeq(@, k + 1, Len(@)),
                                     ![Other(n)] = @ \o s1.out]
             /\ last' = [last EXCEPT ![n] = s1.disp]
             /\ eof' = IF s1.pc = "closed" THEN [eof EXCEPT ![Other(n)] = TRUE] ELSE eof
    /\ UNCHANGED <<iterOrder, fs, client, script, repl, dhtOp>>

\* A read or a write of the task returns an error (the other end has gone
\* and the link is reset): `?` returns it and the stream is dropped with
\* whatever had arrived on it.
HandlerFail(n) ==
    /\ conn[n].pc \in {"start", "read", "entry"}
    /\ eof[n]
    /\ conn' = [conn EXCEPT ![n].pc = "closed"]
    /\ eof' = [eof EXCEPT ![Other(n)] = TRUE]
    /\ UNCHANGED <<dht, iterOrder, fs, chan, last, client, script, repl, dhtOp>>

LifeNext == HandlerStart(1) \/ LifeRecv(1) \/ HandlerFail(1) \/ RawSend \/ RawClose

LifeSpec == LifeInit /\ [][LifeNext]_vars

\* Handshaking, ServingRequests, Closed.
Rank(pc) == IF pc = "start" THEN 0 ELSE IF pc = "closed" THEN 2 ELSE 1

\* C14: the task only moves forward through Handshaking, ServingRequests,
\* Closed; a step it takes after the other end has gone and every byte has
\* been read (its read returns zero bytes), in the main loop or among the
\* entry lines of a DHT_RESPONSE, takes it to Closed, and it enters Closed
\* only on a link whose other end has gone; once Closed its state stays as
\* it is, it takes no byte from the link, changes neither index nor store,
\* and writes nothing.
C14_ForwardOnly ==
    [][ /\ Rank(conn'[1].pc) >= Rank(conn[1].pc)
        /\ (conn[1].pc \in {"read", "entry"} /\ eof[1] /\ chan[1] = <<>>
              /\ conn'[1] # conn[1])
             => conn'[1].pc = "closed"
        /\ (conn[1].pc # "closed" /\ conn'[1].pc = "closed") => eof[1]
        /\ conn[1].pc = "closed"
             => /\ conn'[1] = conn[1]
                /\ chan'[2] = chan[2]
                /\ Len(chan'[1]) >= Len(chan[1])
                /\ dht'[1] = dht[1]
                /\ fs'[1] = fs[1] ]_vars

\* The task is Closed, having been among the entry lines of a DHT_RESPONSE,
\* with part of a line in its buffer.
C14_Witness ==
    /\ conn[1].pc = "closed"
    /\ conn[1].need > 0
    /\ conn[1].buffer # <<>>

-----------------------------------------------------------------------------
(* DhtConcSpec: the tasks of one node call the shared index dht[1]; every
   lock().unwrap() ... drop of the guard is one step *)

\* The tasks that hold a clone of the DHT handle.
Tasks == {1, 2}

\* A task that is in no call on the index.
IdleTask == [pc |-> "idle", todo |-> <<>>, added |-> {}]

\* The latest call on the index: the task and the method, whether the entry
\* registered was there already, what a read observed, the files the read
\* covers, and the merges that were in progress when it read.
NoCall == [op |-> "none", task |-> 0, dup |-> FALSE, obs |-> {}, scope |-> {},
           during |-> {}]

\* The merges of the tasks other than t that have begun and not returned:
\* the entries each has added so far and those it has still to register.
MergesInProgress(t) ==
    {[added |-> dhtOp.task[u].added, todo |-> dhtOp.task[u].todo] :
        u \in {v \in Tasks \ {t} : dhtOp.task[v].pc = "merging"}}

DhtConcInit ==
    /\ dht = [n \in Nodes |-> EmptyDht]
    /\ iterOrder \in {[n \in Nodes |-> order] : order \in IterOrders}
    /\ fs = [n \in Nodes |-> NoFiles]
    /\ chan = [n \in Nodes |-> <<>>]
    /\ eof = [n \in Nodes |-> FALSE]
    /\ conn = [n \in Nodes |-> NoConn]
    /\ last = [n \in Nodes |-> <<>>]
    /\ client = NoClient
    /\ script = <<>>
    /\ repl = NoRepl
    /\ dhtOp = [task |-> [t \in Tasks |-> IdleTask], latest |-> NoCall]

\* register_file_location called by task t: the lock is held from the
\* lookup of the entry to the push.
ConcRegister(t) ==
    /\ dhtOp.task[t].pc = "idle"
    /\ \E f \in FileIds, a \in DhtAddrs :
          /\ dht' = [dht EXCEPT ![1] = RegisterFileLocation(@, f, a)]
          /\ dhtOp' = [dhtOp EXCEPT !.latest =
                         [NoCall EXCEPT !.op = "register", !.task = t,
                                        !.dup = <<f, a>> \in ExportSet(dht[1])]]
    /\ UNCHANGED <<iterOrder, fs, chan, eof, conn, last, client, script, repl>>

\* merge_entries called by task t with a list of entries: the loop is
\* entered; no lock is taken yet.
ConcMergeBegin(t) ==
    /\ dhtOp.task[t].pc = "idle"
    /\ \E es \in DhtEntryLists :
          dhtOp' = [dhtOp EXCEPT
                      !.task[t] = [pc |-> IF es = <<>> THEN "idle" ELSE "merging",
                                   todo |-> es, added |-> {}],
                      !.latest = [NoCall EXCEPT !.op = "merge", !.task = t]]
    /\ UNCHANGED <<dht, iterOrder, fs, chan, eof, conn, last, client, script, repl>>

\* One pass of the loop of merge_entries: register_file_location of the
\* next entry, under the lock for that call alone; after the last entry
\* merge_entries returns.
ConcMergeStep(t) ==
    /\ dhtOp.task[t].pc = "merging"
    /\ LET e == Head(dhtOp.task[t].todo)
           rest == Tail(dhtOp.task[t].todo)
           map == RegisterFileLocation(dht[1], e[1], e[2])
       IN /\ dht' = [dht EXCEPT ![1] = map]
          /\ dhtOp' = [dhtOp EXCEPT
                          !.task[t] = IF rest = <<>> THEN IdleTask
                                      ELSE [pc |-> "merging", todo |-> rest,
                                            added |-> dhtOp.task[t].added
                                               \cup (ExportSet(map) \ ExportSet(dht[1]))],
                          !.latest = [NoCall EXCEPT !.op = "merge", !.task = t,
                                                    !.dup = e \in ExportSet(dht[1])]]
    /\ UNCHANGED <<iterOrder, fs, chan, eof, conn, last, client, script, repl>>

\* all_entries called by task t: the lock is held for the whole iteration.
ConcExport(t) ==
    /\ dhtOp.task[t].pc = "idle"
    /\ dhtOp' = [dhtOp EXCEPT !.latest =
                   [NoCall EXCEPT !.op = "export", !.task = t,
                                  !.obs = Range(AllEntries(dht[1], iterOrder[1])),
                                  !.scope = FileIds,
                                  !.during = MergesInProgress(t)]]
    /\ UNCHANGED <<dht, iterOrder, fs, chan, eof, conn, last, client, script, repl>>

\* get_file_locations called by task t: the lock is held for the clone.
ConcLookup(t) ==
    /\ dhtOp.task[t].pc = "idle"
    /\ \E f \in FileIds :
          LET r == GetFileLocations(dht[1], f)
          IN dhtOp' = [dhtOp EXCEPT !.latest =
                         [NoCall EXCEPT !.op = "lookup", !.task = t,
                                        !.obs = {<<f, r.peers[k]>> : k \in 1..Len(r.peers)},
                                        !.scope = {f},
                                        !.during = MergesInProgress(t)]]
    /\ UNCHANGED <<dht, iterOrder, fs, chan, eof, conn, last, client, script, repl>>

DhtConcNext ==
    \E t \in Tasks :
        \/ ConcRegister(t)
        \/ ConcMergeBegin(t)
        \/ ConcMergeStep(t)
        \/ ConcExport(t)
        \/ ConcLookup(t)

DhtConcSpec == DhtConcInit /\ [][DhtConcNext]_vars

\* No peer list of the index holds an address twice.
NoDuplicateAddress(map) ==
    \A f \in DOMAIN map :
        \A j, k \in 1..Len(map[f]) : map[f][j] = map[f][k] => j = k

\* C11: under every interleaving of register, lookup, exportAll and mergeAll
\* calls of concurrent tasks, no file identifier's peer list holds the same
\* address twice, and no step removes an address recorded for a file
\* identifier: each file's address set only grows.
C11_AppendOnlyNoDuplicates ==
    /\ [](NoDuplicateAddress(dht[1]))
    /\ [][ExportSet(dht[1]) \subseteq ExportSet(dht'[1])]_vars

\* While another task is in the middle of a merge, a task has registered an
\* address the index already held for the file, and the file has two
\* addresses.
C11_Witness ==
    /\ dhtOp.latest.op = "register" /\ dhtOp.latest.dup
    /\ MergesInProgress(dhtOp.latest.task) # {}
    /\ \E f \in DOMAIN dht[1] : Len(dht[1][f]) = 2

\* C12: an exportAll or lookup that ran while a mergeAll of another task
\* was in progress observed none of the entries that merge had added, or
\* every entry of the merge (within the file looked up).
C12_MergeObservedWhole ==
    dhtOp.latest.op \in {"export", "lookup"} =>
        \A d \in dhtOp.latest.during :
            (d.added \cap dhtOp.latest.obs # {}) =>
                \A k \in 1..Len(d.todo) :
                    d.todo[k][1] \in dhtOp.latest.scope => d.todo[k] \in dhtOp.latest.obs

-----------------------------------------------------------------------------
(* ListenSpec: the accept loop of start_peer_discovery on node 1 and the
   connection tasks it spawns, all holding a clone of the node's index *)

\* The most connections the listener accepts.
MaxConns == 3

Conns == 1..MaxConns

\* A connection not accepted yet.
NoTask == [pc |-> "none", result |-> "none"]

ListenInit ==
    /\ dht = [n \in Nodes |-> EmptyDht]
    /\ iterOrder = [n \in Nodes |-> <<"f1", "f2">>]
    /\ fs = [n \in Nodes |-> NoFiles]
    /\ chan = [n \in Nodes |-> <<>>]
    /\ eof = [n \in Nodes |-> FALSE]
    /\ conn = [c \in Conns |-> NoTask]
    /\ last = [n \in Nodes |-> <<>>]
    /\ client = NoClient
    /\ script = [listening |-> TRUE, accepted |-> 0]
    /\ repl = NoRepl
    /\ dhtOp = NoDhtOp

\* With handle_connection awaited in the accept loop and its error returned
\* with `?`: the loop ends with the connection that failed.
ListenEndInline(c) ==
    /\ conn[c].pc = "serving"
    /\ \E result \in {"Ok", "Err"} :
          /\ conn' = [conn EXCEPT ![c] = [pc |-> "closed", result |-> result]]
          /\ script' = [script EXCEPT !.listening = (result = "Ok")]
    /\ UNCHANGED <<dht, iterOrder, fs, chan, eof, last, client, repl, dhtOp>>

\* listener.accept() returns a stream and tokio::spawn starts its task.
ListenAccept(c) ==
    /\ script.listening
    /\ conn[c].pc = "none"
    /\ \A d \in 1..(c - 1) : conn[d].pc # "none"
    /\ conn' = [conn EXCEPT ![c] = [pc |-> "serving", result |-> "none"]]
    /\ script' = [script EXCEPT !.accepted = @ + 1]
    /\ UNCHANGED <<dht, iterOrder, fs, chan, eof, last, client, repl, dhtOp>>

\* The task of connection c takes a DHT_RESPONSE with its entry lines:
\* merge_entries on the shared index, then the reply.
ListenMerge(c) ==
    /\ conn[c].pc = "serving"
    /\ \E es \in DhtEntryLists :
          LET merged == MergeEntries(dht[1], es)
          IN /\ dht' = [dht EXCEPT ![1] = merged]
             /\ last' = [last EXCEPT ![1] = <<[conn |-> c,
                                              reply |-> ExportLines(merged, iterOrder[1])]>>]
    /\ UNCHANGED <<iterOrder, fs, chan, eof, conn, client, script, repl, dhtOp>>

\* The task of connection c takes a DHT_REQUEST: all_entries and the reply.
ListenExport(c) ==
    /\ conn[c].pc = "serving"
    /\ last' = [last EXCEPT ![1] = <<[conn |-> c,
                                     reply |-> ExportLines(dht[1], iterOrder[1])]>>]
    /\ UNCHANGED <<dht, iterOrder, fs, chan, eof, conn, client, script, repl, dhtOp>>

\* handle_connection of connection c returns, Ok after a read of zero bytes
\* or Err after an I/O error; the spawned task logs an Err and ends.
ListenEnd(c) ==
    /\ conn[c].pc = "serving"
    /\ \E result \in {"Ok", "Err"} :
          conn' = [conn EXCEPT ![c] = [pc |-> "closed", result |-> result]]
    /\ UNCHANGED <<dht, iterOrder, fs, chan, eof, last, client, script, repl, dhtOp>>

ListenNext ==
    \E c \in Conns :
        \/ ListenAccept(c)
        \/ ListenMerge(c)
        \/ ListenExport(c)
        \/ ListenEnd(c)

ListenSpec == ListenInit /\ [][ListenNext]_vars

-----------------------------------------------------------------------------
(* The chunker: file_manager/chunker.rs *)

\* The smaller of two numbers.
Min(a, b) == IF a < b THEN a ELSE b

\* With the index left at 0 for every chunk.
RECURSIVE SplitFromSameIndex(_, _, _, _)
SplitFromSameIndex(bytes, chunk_size, file_id, chunk_index) ==
    IF bytes = <<>> THEN <<>>
    ELSE LET bytes_read == Min(chunk_size, Len(bytes))
             data == SubSeq(bytes, 1, bytes_read)
             metadata == [file_id |-> file_id, chunk_index |-> 0,
                          chunk_size |-> bytes_read,
                          total_chunks |-> (bytes_read + chunk_size - 1) \div chunk_size]
         IN <<[metadata |-> metadata, data |-> data]>>
            \o SplitFromSameIndex(SubSeq(bytes, bytes_read + 1, Len(bytes)), chunk_size,
                                  file_id, chunk_index + 1)

\* The loop of split_file_into_chunks from chunk_index on, over the bytes
\* of the file not read yet: file.read fills the buffer, or returns what is
\* left of the file, or 0 at its end; total_chunks is the ceiling of
\* bytes_read / chunk_size.
RECURSIVE SplitFrom(_, _, _, _)
SplitFrom(bytes, chunk_size, file_id, chunk_index) ==
    IF bytes = <<>> THEN <<>>
    ELSE LET bytes_read == Min(chunk_size, Len(bytes))
             data == SubSeq(bytes, 1, bytes_read)
             metadata == [file_id |-> file_id, chunk_index |-> chunk_index,
                          chunk_size |-> bytes_read,
                          total_chunks |-> (bytes_read + chunk_size - 1) \div chunk_size]
         IN <<[metadata |-> metadata, data |-> data]>>
            \o SplitFrom(SubSeq(bytes, bytes_read + 1, Len(bytes)), chunk_size,
                         file_id, chunk_index + 1)

\* split_file_into_chunks of a file that opens: the fresh identifier and
\* the chunks.
SplitFileIntoChunks(bytes, chunk_size, file_id) ==
    [file_id |-> file_id, chunks |-> SplitFrom(bytes, chunk_size, file_id, 0)]

\* The longest file and the largest chunk size of ChunkSpec.
MaxFileLen == 5
MaxChunkSize == 3

\* The bytes of a file.
Bytes == {"a", "b"}

NoSplit == [done |-> FALSE, bytes |-> <<>>, chunk_size |-> 1, file_id |-> "f1",
            chunks |-> <<>>]

(* ChunkSpec: split_file_into_chunks applied to a file *)

ChunkInit ==
    /\ dht = [n \in Nodes |-> EmptyDht]
    /\ iterOrder = [n \in Nodes |-> <<"f1", "f2">>]
    /\ fs = [n \in Nodes |-> NoFiles]
    /\ chan = [n \in Nodes |-> <<>>]
    /\ eof = [n \in Nodes |-> FALSE]
    /\ conn = [n \in Nodes |-> NoConn]
    /\ last = [n \in Nodes |-> <<>>]
    /\ \E F \in SeqUpTo(Bytes, MaxFileLen), S \in 1..MaxChunkSize :
          client = [kind |-> "split", pc |-> "call",
                    split |-> [NoSplit EXCEPT !.bytes = F, !.chunk_size = S]]
    /\ script = <<>>
    /\ repl = NoRepl
    /\ dhtOp = NoDhtOp

\* The call of split_file_into_chunks; Uuid::new_v4 gives the identifier.
ChunkSplit ==
    /\ client.kind = "split" /\ client.pc = "call"
    /\ \E file_id \in FileIds :
          LET r == SplitFileIntoChunks(client.split.bytes, client.split.chunk_size, file_id)
          IN client' = [client EXCEPT !.pc = "done",
                                      !.split.done = TRUE,
                                      !.split.file_id = r.file_id,
                                      !.split.chunks = r.chunks]
    /\ UNCHANGED <<dht, iterOrder, fs, chan, eof, conn, last, script, repl, dhtOp>>

ChunkNext == ChunkSplit

ChunkSpec == ChunkInit /\ [][ChunkNext]_vars

\* The concatenation of the data of a sequence of chunks.
RECURSIVE JoinChunks(_)
JoinChunks(chunks) ==
    IF chunks = <<>> THEN <<>> ELSE Head(chunks).data \o JoinChunks(Tail(chunks))

-----------------------------------------------------------------------------
(* StoreSpec: save_chunk and get_chunk on the directory of one file *)

\* The chunk indices and the chunk contents of StoreSpec.
MaxStoreIndex == 2

StoreIndexes == 0..MaxStoreIndex

StoreData == {<<>>, <<"x">>, <<"x", "y">>, <<"y", NL>>}

StoreInit ==
    /\ dht = [n \in Nodes |-> EmptyDht]
    /\ iterOrder = [n \in Nodes |-> <<"f1", "f2">>]
    /\ fs = [n \in Nodes |-> IF n = 1 THEN InitializeStorage(NoFiles, StorageRoot, "f1")
                             ELSE NoFiles]
    /\ chan = [n \in Nodes |-> <<>>]
    /\ eof = [n \in Nodes |-> FALSE]
    /\ conn = [n \in Nodes |-> NoConn]
    /\ last = [n \in Nodes |-> <<>>]
    /\ client = [kind |-> "store", pc |-> "idle", index |-> 0,
                 before |-> [i \in StoreIndexes |-> [ok |-> FALSE, data |-> <<>>]],
                 saved |-> [i \in StoreIndexes |-> [ok |-> FALSE, data |-> <<>>]]]
    /\ script = <<>>
    /\ repl = NoRepl
    /\ dhtOp = NoDhtOp

\* One save_chunk(directory, index, data); the record keeps what was asked
\* to be saved last for each index, and what get_chunk gave before the call.
StoreSave ==
    /\ client.kind = "store"
    /\ \E i \in StoreIndexes, data \in StoreData :
          /\ fs' = [fs EXCEPT ![1] = SaveChunk(@, FileDir(StorageRoot, "f1"), i, data)]
          /\ client' = [client EXCEPT
                          !.pc = "saved", !.index = i,
                          !.before = [j \in StoreIndexes |->
                                         GetChunk(fs[1], FileDir(StorageRoot, "f1"), j)],
                          !.saved[i] = [ok |-> TRUE, data |-> data]]
    /\ UNCHANGED <<dht, iterOrder, chan, eof, conn, last, script, repl, dhtOp>>

StoreNext == StoreSave

StoreSpec == StoreInit /\ [][StoreNext]_vars

\* C20: after any sequence of saveChunk calls getChunk(directory, i) gives
\* the data of the latest saveChunk for i, byte for byte; the latest call
\* left the content of every other index as it was; and getChunk of an
\* index never saved fails (not found).
C20_LastWriteWins ==
    client.kind = "store" =>
        \A i \in StoreIndexes :
            /\ GetChunk(fs[1], FileDir(StorageRoot, "f1"), i) = client.saved[i]
            /\ (client.pc = "saved" /\ i # client.index)
                  => GetChunk(fs[1], FileDir(StorageRoot, "f1"), i) = client.before[i]

\* An index has been saved again with shorter data while another index
\* holds data and a third was never saved.
C20_Witness ==
    /\ client.kind = "store" /\ client.pc = "saved"
    /\ client.before[client.index].ok
    /\ Len(client.before[client.index].data) > Len(client.saved[client.index].data)
    /\ \E i \in StoreIndexes : i # client.index /\ client.saved[i].ok
    /\ \E i \in StoreIndexes : ~client.saved[i].ok

-----------------------------------------------------------------------------
(* The commands of the CLI: upload_file and download_file of ui/cli.rs *)

\* let chunk_size = 1024, in the model's unit of length.
UploadChunkSize == 2

\* let max_attempts = 10
max_attempts == 10

\* The longest file uploaded, and the most chunks of the file a remote peer holds.
MaxUploadLen == 3
MaxRemoteChunks == 11

\* The destination path of a download.
Dest == <<<<"out.bin">>>>

\* The replicate_chunks call of upload_file for a candidate list with fewer
\* peers than the factor: it returns from the head of its loop.
UploadReplicate(store, peers, storage_root, fid) ==
    LET t == GetTotalChunks(store, storage_root, fid)
        r == [pc |-> "start", peers |-> peers, dir |-> storage_root, fid |-> fid,
              total |-> t.total, chunk |-> 0, selected |-> <<>>, k |-> 0,
              attempts |-> <<>>, result |-> ReplOk]
    IN IF ~t.ok THEN ReplIoError ELSE EnterChunk(r, 0).result

\* The loop of upload_file over the chunks: one save_chunk each.
RECURSIVE SaveAll(_, _, _)
SaveAll(store, dir, chunks) ==
    IF chunks = <<>> THEN store
    ELSE SaveAll(SaveChunk(store, dir, Head(chunks).metadata.chunk_index,
                           Head(chunks).data),
                 dir, Tail(chunks))

\* write_all at the file's position: the bytes replace what was there and
\* extend the file past its end.
WriteAt(old, offset, data) ==
    SubSeq(old, 1, offset) \o data \o SubSeq(old, offset + Len(data) + 1, Len(old))

\* The loop of download_file over 0..n: get_chunk(i) and write_all, or the
\* error of get_chunk with the destination as far as it was written.
RECURSIVE WriteChunks(_, _, _, _, _)
WriteChunks(store, dir, i, n, written) ==
    IF i >= n THEN [store |-> store, result |-> "Ok", written |-> written]
    ELSE LET c == GetChunk(store, dir, i)
         IN IF ~c.ok
            THEN [store |-> store, result |-> "IoError", written |-> written]
            ELSE WriteChunks([store EXCEPT !.files[Dest] = WriteAt(@, Len(written), c.data)],
                             dir, i + 1, n, written \o c.data)

\* download_file from its last list_chunks on: the error for no chunks, or
\* the destination opened with create(true).write(true), without truncate,
\* and written from its start.
DownloadWrite(store, dir) ==
    LET l == ListChunks(store, dir)
        opened == IF Dest \in DOMAIN store.files THEN store
                  ELSE [store EXCEPT !.files = @ @@ (Dest :> <<>>)]
    IN IF ~l.ok THEN [store |-> store, result |-> "IoError", written |-> <<>>]
       ELSE IF l.indices = <<>>
       THEN [store |-> store, result |-> "NoChunks", written |-> <<>>]
       ELSE WriteChunks(opened, dir, 0, Len(l.indices), <<>>)

\* What the peer dialled by fetch_chunk_from_peer does: it sends the chunk
\* in a frame the fetcher takes, the connection fails, or it sends nothing
\* the fetcher takes and keeps the connection open.
FetchBehaviours == {"serve", "fail", "hang"}

\* fetch_chunk_from_peer: Ok with the chunk saved under the requested
\* index, or an error.
FetchChunkFromPeer(store, dir, index, remote, remote_dir, behaviour) ==
    LET c == GetChunk(remote, remote_dir, index)
    IN IF behaviour = "serve" /\ c.ok /\ SaveChunkOk(store, dir)
       THEN [ok |-> TRUE, store |-> SaveChunk(store, dir, index, c.data)]
       ELSE [ok |-> FALSE, store |-> store]

\* The store of the remote peer: chunks 0..n-1 of file f2, chunk i holding
\* the one byte that is the text of i.
RECURSIVE RemoteStore(_)
RemoteStore(n) ==
    IF n = 0 THEN InitializeStorage(NoFiles, StorageRoot, "f2")
    ELSE SaveChunk(RemoteStore(n - 1), FileDir(StorageRoot, "f2"), n - 1,
                   <<"r", FormatUsize(n - 1)>>)

\* The bytes of the remote file of n chunks.
RECURSIVE RemoteFile(_)
RemoteFile(n) ==
    IF n = 0 THEN <<>> ELSE RemoteFile(n - 1) \o <<"r", FormatUsize(n - 1)>>

NoUpload == [state |-> "no", fid |-> "f1", result |-> ReplOk]

\* uploaded records whether the upload had returned when download was called.
NoDownload == [state |-> "no", text |-> "", fid |-> "f1", dir |-> <<>>, locs |-> <<>>,
               i |-> 0, k |-> 0, result |-> "none", written |-> <<>>,
               uploaded |-> FALSE]

\* The state of the destination before the command: absent, or a file of
\* six bytes.
DestStates == {<<>>, <<<<"o", "l", "d", "e", "r", "!">>>>}

\* The local directory of file f2 before the command: absent, empty, or
\* holding chunks 0 and 2 without chunk 1.
LocalStates == {"absent", "empty", "gaps"}

CliInit ==
    /\ dht = [n \in Nodes |-> IF n = 1 THEN RegisterFileLocation(EmptyDht, "f2", PeerAddr1)
                              ELSE EmptyDht]
    /\ iterOrder = [n \in Nodes |-> <<"f1", "f2">>]
    /\ \E d0 \in DestStates, held \in {2, MaxRemoteChunks}, local \in LocalStates :
          LET dir2 == FileDir(StorageRoot, "f2")
              empty == InitializeStorage(NoFiles, StorageRoot, "f2")
              base == CASE local = "absent" -> [NoFiles EXCEPT !.dirs = {StorageRoot}]
                        [] local = "empty" -> empty
                        [] local = "gaps" ->
                             SaveChunk(SaveChunk(empty, dir2, 0, <<"r", "0">>),
                                       dir2, 2, <<"r", "2">>)
          IN fs = [n \in Nodes |->
                     IF n = 2 THEN RemoteStore(held)
                     ELSE IF d0 = <<>> THEN base
                     ELSE [base EXCEPT !.files = @ @@ (Dest :> d0[1])]]
    /\ chan = [n \in Nodes |-> <<>>]
    /\ eof = [n \in Nodes |-> FALSE]
    /\ conn = [n \in Nodes |-> NoConn]
    /\ last = [n \in Nodes |-> <<>>]
    /\ \E F \in SeqUpTo(Bytes, MaxUploadLen), peers \in {<<>>, <<PeerAddr1>>} :
          client = [kind |-> "cli", pc |-> "idle", file |-> F, peers |-> peers,
                    up |-> NoUpload, down |-> NoDownload]
    /\ script = <<>>
    /\ repl = NoRepl
    /\ dhtOp = NoDhtOp

\* upload_file up to the call of replicate_chunks: split, initialize_storage,
\* save_chunk for each chunk, register_file_location of the local peer.
CliUploadStore ==
    /\ client.kind = "cli" /\ client.pc = "idle" /\ client.up.state = "no"
    /\ LET r == SplitFileIntoChunks(client.file, UploadChunkSize, "f1")
           storage_dir == FileDir(StorageRoot, r.file_id)
       IN /\ fs' = [fs EXCEPT ![1] = SaveAll(InitializeStorage(@, StorageRoot, r.file_id),
                                            storage_dir, r.chunks)]
          /\ dht' = [dht EXCEPT ![1] = RegisterFileLocation(@, r.file_id, LocalAddr)]
          /\ client' = [client EXCEPT !.pc = "replicate",
                                      !.up = [state |-> "stored", fid |-> r.file_id,
                                              result |-> ReplOk]]
    /\ UNCHANGED <<iterOrder, chan, eof, conn, last, script, repl, dhtOp>>

\* With the stored chunks and the registration taken back when replication fails.
CliUploadRollback ==
    /\ client.kind = "cli" /\ client.pc = "replicate"
    /\ LET res == UploadReplicate(fs[1], client.peers, StorageRoot, client.up.fid)
       IN /\ client' = [client EXCEPT !.pc = "idle",
                                      !.up = [state |-> "done", fid |-> client.up.fid,
                                              result |-> res]]
          /\ fs' = IF res.ok THEN fs
                   ELSE [fs EXCEPT ![1].files =
                           [q \in {q \in DOMAIN fs[1].files :
                                      SubSeq(q, 1, Len(q) - 1)
                                         # FileDir(StorageRoot, client.up.fid)}
                              |-> fs[1].files[q]]]
          /\ dht' = IF res.ok THEN dht ELSE [dht EXCEPT ![1] = [f \in DOMAIN @ \ {client.up.fid} |-> @[f]]]
    /\ UNCHANGED <<iterOrder, chan, eof, conn, last, script, repl, dhtOp>>

\* replicate_chunks(peers, storage_root, &file_id).await? and the return
\* of upload_file.
CliUploadReplicate ==
    /\ client.kind = "cli" /\ client.pc = "replicate"
    /\ client' = [client EXCEPT
                    !.pc = "idle",
                    !.up = [state |-> "done", fid |-> client.up.fid,
                            result |-> UploadReplicate(fs[1], client.peers, StorageRoot,
                                                       client.up.fid)]]
    /\ UNCHANGED <<dht, iterOrder, fs, chan, eof, conn, last, script, repl, dhtOp>>

\* The texts given to download as the file identifier.
DownloadTexts == {"f1", "f2", "F2", "zz"}

\* download_file up to its first fetch or its return.
CliDownload ==
    /\ client.kind = "cli" /\ client.pc = "idle" /\ client.down.state = "no"
    /\ \E text \in DownloadTexts :
          LET d0 == [NoDownload EXCEPT !.text = text,
                                       !.uploaded = client.up.state = "done"]
              done(result) == [d0 EXCEPT !.state = "done", !.result = result]
          IN IF ~ParseUuidOk(<<text>>)
             THEN /\ client' = [client EXCEPT !.down = done("InvalidId")]
                  /\ fs' = fs
             ELSE LET file_id == ParseUuid(<<text>>)
                      locs == GetFileLocations(dht[1], file_id)
                      storage_dir == FileDir(StorageRoot, file_id)
                      l == ListChunks(fs[1], storage_dir)
                      w == DownloadWrite(fs[1], storage_dir)
                  IN IF ~locs.found
                     THEN /\ client' = [client EXCEPT
                                          !.down = [done("NotInDht") EXCEPT !.fid = file_id]]
                          /\ fs' = fs
                     ELSE IF ~l.ok
                     THEN /\ client' = [client EXCEPT
                                          !.down = [done("IoError") EXCEPT !.fid = file_id]]
                          /\ fs' = fs
                     ELSE IF l.indices # <<>>
                     THEN /\ client' = [client EXCEPT
                                          !.down = [done(w.result) EXCEPT
                                                      !.fid = file_id, !.dir = storage_dir,
                                                      !.written = w.written]]
                          /\ fs' = [fs EXCEPT ![1] = w.store]
                     ELSE /\ client' = [client EXCEPT
                                          !.pc = "fetch",
                                          !.down = [d0 EXCEPT
                                                      !.state = "fetch", !.fid = file_id,
                                                      !.dir = storage_dir,
                                                      !.locs = locs.peers,
                                                      !.i = 0, !.k = 1]]
                          /\ fs' = fs
    /\ UNCHANGED <<dht, iterOrder, chan, eof, conn, last, script, repl, dhtOp>>

\* One fetch_chunk_from_peer of the loops of download_file, and the loops
\* up to the next fetch or, after them, the rest of download_file.
CliFetch ==
    /\ client.kind = "cli" /\ client.pc = "fetch"
    /\ \E b \in FetchBehaviours :
          LET d == client.down
              remote == d.locs[d.k] = PeerAddr1
              r == FetchChunkFromPeer(fs[1], d.dir, d.i, fs[2], FileDir(StorageRoot, d.fid),
                                      IF remote THEN b ELSE "fail")
              more == IF r.ok THEN d.i + 1 < max_attempts ELSE d.k < Len(d.locs)
              w == DownloadWrite(r.store, d.dir)
          IN IF remote /\ b = "hang"
             THEN /\ client' = [client EXCEPT !.pc = "hung"]
                  /\ fs' = fs
             ELSE IF more
             THEN /\ client' = [client EXCEPT
                                  !.down.i = IF r.ok THEN d.i + 1 ELSE d.i,
                                  !.down.k = IF r.ok THEN 1 ELSE d.k + 1]
                  /\ fs' = [fs EXCEPT ![1] = r.store]
             ELSE /\ client' = [client EXCEPT
                                  !.pc = "idle",
                                  !.down.state = "done",
                                  !.down.result = w.result,
                                  !.down.written = w.written]
                  /\ fs' = [fs EXCEPT ![1] = w.store]
    /\ UNCHANGED <<dht, iterOrder, chan, eof, conn, last, script, repl, dhtOp>>

CliNext == CliUploadStore \/ CliUploadReplicate \/ CliDownload \/ CliFetch

CliSpec == CliInit /\ [][CliNext]_vars

\* The chunks upload_file stores for the file of the behaviour.
UploadChunks == SplitFileIntoChunks(client.file, UploadChunkSize, "f1").chunks

\* Every chunk of the uploaded file is in the local store under its index,
\* and no other index is.
UploadStored ==
    LET dir == FileDir(StorageRoot, "f1")
        l == ListChunks(fs[1], dir)
    IN /\ l.ok
       /\ l.indices = [i \in 1..Len(UploadChunks) |-> i - 1]
       /\ \A i \in 1..Len(UploadChunks) :
             LET c == GetChunk(fs[1], dir, i - 1)
             IN c.ok /\ c.data = UploadChunks[i].data

\* The index names the local peer as a holder of the uploaded file.
UploadRegistered ==
    LET locs == GetFileLocations(dht[1], "f1")
    IN locs.found /\ \E k \in 1..Len(locs.peers) : locs.peers[k] = LocalAddr

\* A download of the uploaded file, called after the upload returned, has returned.
DownloadedOwnFile ==
    /\ client.kind = "cli"
    /\ client.down.state = "done"
    /\ client.down.uploaded
    /\ ParseUuidOk(<<client.down.text>>)
    /\ ParseUuid(<<client.down.text>>) = "f1"

\* C16: after an upload with zero peers configured, a download of the file
\* identifier returns success and leaves the destination holding exactly
\* the bytes of the uploaded file.
C16_DownloadRestoresFile ==
    (DownloadedOwnFile /\ client.peers = <<>>)
        => /\ client.down.result = "Ok"
           /\ Dest \in DOMAIN fs[1].files
           /\ fs[1].files[Dest] = client.file

\* C17: upload has stored every chunk and registered the local peer when
\* replication starts; the stored chunks and the registration stay when
\* replication returns InsufficientPeers, which upload returns to its
\* caller; a later download of the identifier returns success having
\* written the bytes of the file.
C17_StoredBeforeReplication ==
    client.kind = "cli" =>
        /\ client.pc = "replicate" => UploadStored /\ UploadRegistered
        /\ client.up.state = "done"
              => /\ UploadStored /\ UploadRegistered
                 /\ Len(UploadChunks) > 0
                       => /\ client.up.result.kind = "InsufficientPeers"
                          /\ client.up.result.required = REPLICATION_FACTOR
                          /\ client.up.result.available = Len(client.peers)
        /\ (DownloadedOwnFile /\ Len(UploadChunks) > 0)
              => /\ client.down.result = "Ok"
                 /\ client.down.written = client.file

C17_Witness ==
    /\ DownloadedOwnFile
    /\ client.up.result.kind = "InsufficientPeers"
    /\ client.down.result = "Ok"
    /\ Len(UploadChunks) > 1
    /\ UploadStored /\ UploadRegistered

\* C18: when a download of a file held by a remote peer returns success,
\* the bytes it wrote are the whole file, every chunk the peer holds in
\* index order.
C18_SuccessMeansComplete ==
    (client.kind = "cli" /\ client.down.state = "done" /\ client.down.fid = "f2"
       /\ client.down.result = "Ok")
        => client.down.written
             = RemoteFile(Len(ListChunks(fs[2], FileDir(StorageRoot, "f2")).indices))

-----------------------------------------------------------------------------
(* Listing a directory of chunks: list_chunks of file_manager/storage.rs *)

\* The largest index saved.
MaxListIndex == 2

\* The names of the entries other programs leave in the directory: chunk
\* names whose number has a leading zero, a name whose number is no number,
\* a name without the suffix, and a name of another form.
ForeignNames == {<<"chunk_", "01", ".bin">>, <<"chunk_", "00", ".bin">>,
                 <<"chunk_", "x", ".bin">>, <<"chunk_", "1">>, <<"notes.txt">>}

ListDir == FileDir(StorageRoot, "f1")

\* The names of the files directly in ListDir.
ListedNames == {p[Len(ListDir) + 1] : p \in {q \in DOMAIN fs[1].files :
                   Len(q) = Len(ListDir) + 1 /\ SubSeq(q, 1, Len(ListDir)) = ListDir}}

\* A fresh directory, or one that holds a subdirectory named like a chunk.
ListInit ==
    /\ dht = [n \in Nodes |-> EmptyDht]
    /\ iterOrder = [n \in Nodes |-> <<"f1", "f2">>]
    /\ \E sub \in BOOLEAN :
          LET fresh == InitializeStorage(NoFiles, StorageRoot, "f1")
          IN fs = [n \in Nodes |->
                     IF n = 2 THEN NoFiles
                     ELSE IF sub
                     THEN [fresh EXCEPT !.dirs = @ \cup {Join(ListDir, ChunkFileName(2))}]
                     ELSE fresh]
    /\ chan = [n \in Nodes |-> <<>>]
    /\ eof = [n \in Nodes |-> FALSE]
    /\ conn = [n \in Nodes |-> NoConn]
    /\ last = [n \in Nodes |-> <<>>]
    /\ client = [kind |-> "list", called |-> FALSE, result |-> <<>>,
                 saved |-> {}, foreign |-> FALSE]
    /\ script = <<>>
    /\ repl = NoRepl
    /\ dhtOp = NoDhtOp

\* save_chunk of index i; File::create fails where a directory has the name.
ListSave ==
    /\ client.kind = "list"
    /\ \E i \in 0..MaxListIndex, data \in {<<"x">>, <<"y", "z">>} :
          /\ Join(ListDir, ChunkFileName(i)) \notin fs[1].dirs
          /\ fs' = [fs EXCEPT ![1] = SaveChunk(@, ListDir, i, data)]
          /\ client' = [client EXCEPT !.called = FALSE, !.saved = @ \cup {i}]
    /\ UNCHANGED <<dht, iterOrder, chan, eof, conn, last, script, repl, dhtOp>>

\* Another program creates a file in the directory.
ListForeign ==
    /\ client.kind = "list"
    /\ \E name \in ForeignNames :
          /\ Join(ListDir, name) \notin DOMAIN fs[1].files
          /\ fs' = [fs EXCEPT ![1].files = @ @@ (Join(ListDir, name) :> <<"x">>)]
          /\ client' = [client EXCEPT !.called = FALSE, !.foreign = TRUE]
    /\ UNCHANGED <<dht, iterOrder, chan, eof, conn, last, script, repl, dhtOp>>

\* A call of list_chunks.
ListCall ==
    /\ client.kind = "list"
    /\ ~client.called
    /\ client' = [client EXCEPT !.called = TRUE,
                                !.result = ListChunks(fs[1], ListDir).indices]
    /\ UNCHANGED <<dht, iterOrder, fs, chan, eof, conn, last, script, repl, dhtOp>>

ListNext == ListSave \/ ListForeign \/ ListCall

ListSpec == ListInit /\ [][ListNext]_vars

\* C21: for any content of the directory list_chunks returns the indices
\* of the entries named chunk_<N>.bin in strictly ascending order, each
\* once, and nothing for the other entries; after save_chunk calls alone
\* it returns exactly the saved indices.
C21_StrictlyAscending ==
    (client.kind = "list" /\ client.called)
        => /\ \A k \in 1..(Len(client.result) - 1) : client.result[k] < client.result[k + 1]
           /\ Range(client.result)
                 = {ParseUsize(<<n[2]>>) : n \in {m \in ListedNames : IsChunkName(m)}}
           /\ ~client.foreign => Range(client.result) = client.saved

-----------------------------------------------------------------------------
(* One push over a link: send_chunk_to_peer of peer/connection.rs *)

\* The most bytes the peer sends before it closes.
MaxReply == 3

AckBytes == {"O", "K", "x"}

Links == [connect : BOOLEAN, write : {"ok", "fail_header", "fail_data"},
          reply : SeqUpTo(AckBytes, MaxReply)]

SendInit ==
    /\ dht = [n \in Nodes |-> EmptyDht]
    /\ iterOrder = [n \in Nodes |-> <<"f1", "f2">>]
    /\ \E stored \in SUBSET {0, 1}, data \in {<<>>, <<"x", "y">>} :
          fs = [n \in Nodes |-> IF n = 1 THEN StoreWith("f1", stored, data) ELSE NoFiles]
    /\ chan = [n \in Nodes |-> <<>>]
    /\ eof = [n \in Nodes |-> FALSE]
    /\ conn = [n \in Nodes |-> NoConn]
    /\ last = [n \in Nodes |-> <<>>]
    /\ client = [kind |-> "send", pc |-> "start", dir |-> <<>>, index |-> 0,
                 link |-> NoLink, res |-> [ok |-> FALSE, sent |-> <<>>]]
    /\ script = <<>>
    /\ repl = NoRepl
    /\ dhtOp = NoDhtOp

\* A call of send_chunk_to_peer, from connect to its return.
SendCall ==
    /\ client.kind = "send" /\ client.pc = "start"
    /\ \E link \in Links, index \in {0, 1}, dir \in {FileDir(StorageRoot, "f1"), StorageRoot} :
          client' = [client EXCEPT
                       !.pc = "done", !.dir = dir, !.index = index, !.link = link,
                       !.res = SendChunkOver(fs[1], dir, "f1", index, link)]
    /\ UNCHANGED <<dht, iterOrder, fs, chan, eof, conn, last, script, repl, dhtOp>>

SendNext == SendCall

SendSpec == SendInit /\ [][SendNext]_vars

\* The chunk send_chunk_to_peer was called for is in the directory it was given.
SendChunkHeld == Join(client.dir, ChunkFileName(client.index)) \in DOMAIN fs[1].files

\* C22: send_chunk_to_peer returns Ok exactly when connect succeeded, the
\* chunk was read, both writes succeeded and the first two bytes read are
\* OK; when the chunk is missing it has written no byte of the frame.
C22_AckOrFail ==
    (client.kind = "send" /\ client.pc = "done")
        => /\ client.res.ok
                 <=> /\ client.link.connect
                     /\ SendChunkHeld
                     /\ client.link.write = "ok"
                     /\ Len(client.link.reply) >= 2
                     /\ client.link.reply[1] = "O" /\ client.link.reply[2] = "K"
           /\ ~SendChunkHeld => client.res.sent = <<>>
           /\ client.res.ok
                 => client.res.sent
                      = PushFrame("f1", client.index,
                                  fs[1].files[Join(client.dir, ChunkFileName(client.index))])

\* A push that failed on two bytes that are not OK, the frame written whole.
C22_Witness ==
    /\ client.kind = "send" /\ client.pc = "done"
    /\ ~client.res.ok
    /\ client.link.connect /\ client.link.write = "ok" /\ SendChunkHeld
    /\ client.link.reply = <<"K", "O">>
    /\ client.res.sent # <<>>

-----------------------------------------------------------------------------
(* Two merges racing on the shared index: DHT::merge_entries of indexing/dht.rs *)

\* The index before the two merges.
PriorMaps == {EmptyDht,
              RegisterFileLocation(EmptyDht, "f1", LocalAddr),
              RegisterFileLocation(RegisterFileLocation(EmptyDht, "f1", BareAddr),
                                   "f2", LocalAddr)}

\* Two connection tasks have each called merge_entries with a list; script
\* keeps the index as it was and the two lists.
MergeRaceInit ==
    /\ \E prior \in PriorMaps, lists \in [Tasks -> DhtEntryLists] :
          /\ dht = [n \in Nodes |-> IF n = 1 THEN prior ELSE EmptyDht]
          /\ script = [prior |-> prior, lists |-> lists]
          /\ dhtOp = [task |-> [t \in Tasks |->
                                  [pc |-> IF lists[t] = <<>> THEN "idle" ELSE "merging",
                                   todo |-> lists[t], added |-> {}]],
                      latest |-> NoCall]
    /\ iterOrder = [n \in Nodes |-> <<"f1", "f2">>]
    /\ fs = [n \in Nodes |-> NoFiles]
    /\ chan = [n \in Nodes |-> <<>>]
    /\ eof = [n \in Nodes |-> FALSE]
    /\ conn = [n \in Nodes |-> NoConn]
    /\ last = [n \in Nodes |-> <<>>]
    /\ client = NoClient
    /\ repl = NoRepl

MergeRaceNext == \E t \in Tasks : ConcMergeStep(t)

MergeRaceSpec == MergeRaceInit /\ [][MergeRaceNext]_vars

\* The addresses the index records for a file.
AddressSet(map, f) ==
    IF f \in DOMAIN map THEN Range(map[f]) ELSE {}

\* The addresses a list of entries gives for a file.
ListedFor(entries, f) ==
    {entries[k][2] : k \in {j \in 1..Len(entries) : entries[j][1] = f}}

\* Both merges have returned.
BothMerged == \A t \in Tasks : dhtOp.task[t].pc = "idle"

\* C23: when two tasks have merged their lists into the shared index, with
\* their registrations interleaved in any way, the address set of every
\* file is the union of its prior addresses with those of both lists.
C23_MergeOrderIrrelevant ==
    BothMerged
        => \A f \in FileIds :
              AddressSet(dht[1], f)
                 = AddressSet(script.prior, f)
                     \cup ListedFor(script.lists[1], f) \cup ListedFor(script.lists[2], f)

\* Both merges have returned, their lists naming the same file with
\* different addresses first, and the last registration was task 1's.
C23_Witness ==
    /\ BothMerged
    /\ Len(script.lists[1]) = 2 /\ Len(script.lists[2]) = 2
    /\ script.lists[1][1][1] = script.lists[2][1][1]
    /\ script.lists[1][1][2] # script.lists[2][1][2]
    /\ script.prior # EmptyDht
    /\ dhtOp.latest.task = 1

-----------------------------------------------------------------------------
(* Encryption helpers: encrypt and decrypt of peer/encryption.rs *)

\* The number of bytes of a key (32 in the code) and of a nonce (12 in the
\* code), in the model's scale.
KeyBytes == 2
NonceBytes == 1

\* The characters of the texts given as hex: one hex digit and one
\* character that is none.
HexChars == {"a", "g"}
HexDigits == {"a"}

\* hex::decode: an error for a text of odd length or with a character that
\* is no hex digit, else one byte for each pair of digits.
HexDecode(text) ==
    IF Len(text) % 2 = 1 \/ \E k \in 1..Len(text) : text[k] \notin HexDigits
    THEN [ok |-> FALSE, bytes |-> <<>>]
    ELSE [ok |-> TRUE,
          bytes |-> [k \in 1..(Len(text) \div 2) |-> <<text[2 * k - 1], text[2 * k]>>]]

\* hex::encode
RECURSIVE HexEncode(_)
HexEncode(bytes) ==
    IF bytes = <<>> THEN <<>> ELSE Head(bytes) \o HexEncode(Tail(bytes))

\* The result of a call: its kind, whether a cipher was built and used, and
\* the texts or bytes returned.
CryptErr(kind) == [kind |-> kind, crypto |-> FALSE, out |-> <<>>]

\* encrypt: the key decoded and measured, then the cipher with a nonce
\* from OsRng; the ciphertext is the data and a tag.
Encrypt(data, key, nonce_bytes) ==
    LET key_bytes == HexDecode(key)
    IN IF ~key_bytes.ok THEN CryptErr("HexDecodeError")
       ELSE IF Len(key_bytes.bytes) # KeyBytes THEN CryptErr("InvalidKeyLength")
       ELSE [kind |-> "Ok", crypto |-> TRUE,
             out |-> <<HexEncode(nonce_bytes), HexEncode(data \o <<<<"a", "a">>>>)>>]

\* With the key measured before the nonce and the ciphertext are decoded.
DecryptKeyFirst(nonce_hex, ciphertext_hex, key, authentic) ==
    LET key_bytes == HexDecode(key)
        nonce_bytes == HexDecode(nonce_hex)
        ciphertext == HexDecode(ciphertext_hex)
    IN IF ~key_bytes.ok THEN CryptErr("HexDecodeError")
       ELSE IF Len(key_bytes.bytes) # KeyBytes THEN CryptErr("InvalidKeyLength")
       ELSE IF ~nonce_bytes.ok THEN CryptErr("HexDecodeError")
       ELSE IF ~ciphertext.ok THEN CryptErr("HexDecodeError")
       ELSE IF Len(nonce_bytes.bytes) # NonceBytes THEN CryptErr("InvalidKeyLength")
       ELSE IF ~authentic \/ ciphertext.bytes = <<>>
       THEN [kind |-> "AesGcmError", crypto |-> TRUE, out |-> <<>>]
       ELSE [kind |-> "Ok", crypto |-> TRUE,
             out |-> SubSeq(ciphertext.bytes, 1, Len(ciphertext.bytes) - 1)]

\* decrypt: the three texts decoded in the order key, nonce, ciphertext,
\* then the two lengths, then the cipher, whose verdict on the tag is the
\* cipher's own.
Decrypt(nonce_hex, ciphertext_hex, key, authentic) ==
    LET key_bytes == HexDecode(key)
        nonce_bytes == HexDecode(nonce_hex)
        ciphertext == HexDecode(ciphertext_hex)
    IN IF ~key_bytes.ok THEN CryptErr("HexDecodeError")
       ELSE IF ~nonce_bytes.ok THEN CryptErr("HexDecodeError")
       ELSE IF ~ciphertext.ok THEN CryptErr("HexDecodeError")
       ELSE IF Len(key_bytes.bytes) # KeyBytes \/ Len(nonce_bytes.bytes) # NonceBytes
       THEN CryptErr("InvalidKeyLength")
       ELSE IF ~authentic \/ ciphertext.bytes = <<>>
       THEN [kind |-> "AesGcmError", crypto |-> TRUE, out |-> <<>>]
       ELSE [kind |-> "Ok", crypto |-> TRUE,
             out |-> SubSeq(ciphertext.bytes, 1, Len(ciphertext.bytes) - 1)]

\* The texts given as key, as nonce and as ciphertext: up to one byte more
\* than the length asked for.
KeyTexts == SeqUpTo(HexChars, 2 * KeyBytes + 2)
NonceTexts == SeqUpTo(HexChars, 2 * NonceBytes + 2)
CipherTexts == SeqUpTo(HexChars, 2)

CryptInit ==
    /\ dht = [n \in Nodes |-> EmptyDht]
    /\ iterOrder = [n \in Nodes |-> <<"f1", "f2">>]
    /\ fs = [n \in Nodes |-> NoFiles]
    /\ chan = [n \in Nodes |-> <<>>]
    /\ eof = [n \in Nodes |-> FALSE]
    /\ conn = [n \in Nodes |-> NoConn]
    /\ last = [n \in Nodes |-> <<>>]
    /\ client = [kind |-> "crypt", op |-> "none", key |-> <<>>, nonce |-> <<>>,
                 ciphertext |-> <<>>, res |-> CryptErr("none")]
    /\ script = <<>>
    /\ repl = NoRepl
    /\ dhtOp = NoDhtOp

\* A call of encrypt.
CryptEncrypt ==
    /\ client.kind = "crypt" /\ client.op = "none"
    /\ \E key \in KeyTexts, data \in {<<>>, <<<<"a", "a">>>>} :
          client' = [client EXCEPT
                       !.op = "encrypt", !.key = key,
                       !.res = Encrypt(data, key,
                                       [k \in 1..NonceBytes |-> <<"a", "a">>])]
    /\ UNCHANGED <<dht, iterOrder, fs, chan, eof, conn, last, script, repl, dhtOp>>

\* A call of decrypt.
CryptDecrypt ==
    /\ client.kind = "crypt" /\ client.op = "none"
    /\ \E key \in KeyTexts, nonce \in NonceTexts, ct \in CipherTexts,
          authentic \in BOOLEAN :
          client' = [client EXCEPT
                       !.op = "decrypt", !.key = key, !.nonce = nonce,
                       !.ciphertext = ct,
                       !.res = Decrypt(nonce, ct, key, authentic)]
    /\ UNCHANGED <<dht, iterOrder, fs, chan, eof, conn, last, script, repl, dhtOp>>

CryptNext == CryptEncrypt \/ CryptDecrypt

CryptSpec == CryptInit /\ [][CryptNext]_vars

\* A text is hex: even length and hex digits only.
IsHex(text) == Len(text) % 2 = 0 /\ \A k \in 1..Len(text) : text[k] \in HexDigits

\* The texts the call decodes.
CryptTexts ==
    IF client.op = "encrypt" THEN {client.key}
    ELSE {client.key, client.nonce, client.ciphertext}

\* C24: a text that is not hex gives HexDecodeError whatever the lengths of
\* the others; with every text hex, a key that is not KeyBytes long gives
\* InvalidKeyLength, and so does in decrypt a nonce that is not NonceBytes
\* long; no cipher is built in these cases, and AesGcmError or a result
\* comes only from inputs that pass all the checks.
C24_ChecksBeforeCrypto ==
    (client.kind = "crypt" /\ client.op # "none")
        => LET allHex == \A t \in CryptTexts : IsHex(t)
               keyLen == Len(client.key) = 2 * KeyBytes
               nonceLen == client.op = "decrypt" => Len(client.nonce) = 2 * NonceBytes
           IN /\ ~allHex => client.res.kind = "HexDecodeError"
              /\ (allHex /\ ~keyLen) => client.res.kind = "InvalidKeyLength"
              /\ (allHex /\ ~nonceLen) => client.res.kind = "InvalidKeyLength"
              /\ client.res.kind \in {"HexDecodeError", "InvalidKeyLength"}
                    => ~client.res.crypto
              /\ client.res.kind \in {"AesGcmError", "Ok"}
                    <=> (allHex /\ keyLen /\ nonceLen)
              /\ client.res.crypto <=> (allHex /\ keyLen /\ nonceLen)

\* decrypt was given a key of hex digits that is too short, and a nonce of
\* the right length that is not hex.
C24_Witness ==
    /\ client.kind = "crypt" /\ client.op = "decrypt"
    /\ IsHex(client.key) /\ Len(client.key) < 2 * KeyBytes
    /\ ~IsHex(client.nonce) /\ Len(client.nonce) = 2 * NonceBytes
    /\ client.res.kind = "HexDecodeError"

-----------------------------------------------------------------------------
(* A session: the task of node 1 reads a stream of lines in reads of any
   sizes; in ExportSpec other tasks register entries in the index meanwhile *)

\* The most lines of a session's stream.
MaxSession == 3

\* The most registrations by other tasks during a session.
MaxRegs == 2

SessionFrames ==
    { LineFrame(<<"DHT_REQUEST">>),
      LineFrame(<<"DHT_RESPONSE", COLON, "1">>),
      LineFrame(<<"DHT_RESPONSE", COLON, "2">>),
      LineFrame(<<"DHT_RESPONSE", COLON, "zz">>),
      LineFrame(<<"f2", COLON, "node3">>),
      LineFrame(<<"CHUNK_REQUEST", COLON, "f1", COLON, "0">>),
      LineFrame(<<"hello">>) }

ExportFrames ==
    { LineFrame(<<"DHT_REQUEST">>),
      LineFrame(<<"DHT_RESPONSE", COLON, "1">>),
      LineFrame(<<"DHT_RESPONSE", COLON, "zz">>),
      LineFrame(<<"f2", COLON, "node3">>) }

\* The bytes of a sequence of frames.
StreamOf(frames) == Concat([k \in 1..Len(frames) |-> frames[k].bytes])

\* The task of node 1 has written its welcome line and DHT_REQUEST and is
\* about to read; the whole stream has arrived; script keeps its lines and
\* the index as it was.
SessionInitWith(streams) ==
    /\ \E prior \in {EmptyDht, RegisterFileLocation(EmptyDht, "f1", LocalAddr)} :
          /\ dht = [n \in Nodes |-> IF n = 1 THEN prior ELSE EmptyDht]
          /\ \E frames \in streams :
                /\ script = [frames |-> frames, prior |-> prior]
                /\ chan = [n \in Nodes |-> IF n = 1 THEN StreamOf(frames) ELSE <<>>]
    /\ iterOrder = [n \in Nodes |-> <<"f1", "f2">>]
    /\ fs = [n \in Nodes |-> IF n = 1 THEN StoreWith("f1", {0}, HeldChunk) ELSE NoFiles]
    /\ eof = [n \in Nodes |-> FALSE]
    /\ conn = [n \in Nodes |-> IF n = 1 THEN [NewConn EXCEPT !.pc = "read"] ELSE NoConn]
    /\ last = [n \in Nodes |-> <<>>]
    /\ client = NoClient
    /\ repl = NoRepl
    /\ dhtOp = [op |-> "regs", entries |-> <<>>, before |-> EmptyDht]

\* One stream.read of the task of node 1 and what it does before it reads
\* again; last[1] keeps every line dispatched since the task began.
SessionRecv ==
    /\ conn[1].pc \in {"read", "entry"}
    /\ \E k \in ReadSizes(1) :
          \E s1 \in {HandlerAfterRead(conn[1], dht[1], SubSeq(chan[1], 1, k), k,
                                      fs[1], iterOrder[1])} :
             /\ conn' = [conn EXCEPT ![1] = [pc |-> s1.pc, buffer |-> s1.buffer,
                                             need |-> s1.need, entries |-> s1.entries,
                                             header |-> s1.header,
                                             respDone |-> s1.respDone]]
             /\ dht' = [dht EXCEPT ![1] = s1.dht]
             /\ chan' = [chan EXCEPT ![1] = SubSeq(@, k + 1, Len(@)),
                                     ![2] = @ \o s1.out]
             /\ last' = [last EXCEPT ![1] = @ \o s1.disp]
             /\ eof' = IF k = 0 THEN [eof EXCEPT ![2] = TRUE] ELSE eof
    /\ UNCHANGED <<iterOrder, fs, client, script, repl, dhtOp>>

\* The other end closes the link.
SessionClose ==
    /\ ~eof[1]
    /\ eof' = [eof EXCEPT ![1] = TRUE]
    /\ UNCHANGED <<dht, iterOrder, fs, chan, conn, last, client, script, repl, dhtOp>>

\* Another task of node 1 calls register_file_location.
SessionRegister ==
    /\ dhtOp.op = "regs"
    /\ Len(dhtOp.entries) < MaxRegs
    /\ \E f \in FileIds, a \in DhtAddrs :
          /\ dht' = [dht EXCEPT ![1] = RegisterFileLocation(@, f, a)]
          /\ dhtOp' = [dhtOp EXCEPT !.entries = Append(@, <<f, a>>)]
    /\ UNCHANGED <<iterOrder, fs, chan, eof, conn, last, client, script, repl>>

\* The streams of a session: up to MaxSession lines, and a header for two
\* entries followed by MaxSession lines.
SessionStreams ==
    SeqUpTo(SessionFrames, MaxSession)
       \cup {<<LineFrame(<<"DHT_RESPONSE", COLON, "2">>)>> \o t :
                t \in [1..MaxSession -> SessionFrames]}

SessionInit == SessionInitWith(SessionStreams)

SessionNext == SessionRecv \/ SessionClose

SessionSpec == SessionInit /\ [][SessionNext]_vars

ExportInit == SessionInitWith(SeqUpTo(ExportFrames, MaxSession))

ExportNext == SessionRecv \/ SessionClose \/ SessionRegister

ExportSpec == ExportInit /\ [][ExportNext]_vars

\* The lines of a reply after its header line, as a sequence of lines
\* without their newlines.
RECURSIVE LinesOf(_)
LinesOf(bytes) ==
    IF PosNL(bytes) = 0 THEN <<>>
    ELSE <<SubSeq(bytes, 1, PosNL(bytes) - 1)>>
            \o LinesOf(SubSeq(bytes, PosNL(bytes) + 1, Len(bytes)))

\* The line "<fileId>:<address>" of an entry of the index.
EntryLine(e) == <<FormatUuid(e[1]), COLON>> \o e[2]

\* A reply is DHT_RESPONSE:<N> and N lines, one for each pair of the set
\* of pairs, and ends with the last of them.
IsExportOf(reply, pairs) ==
    LET lines == LinesOf(reply)
    IN /\ reply # <<>> /\ reply[Len(reply)] = NL
       /\ Len(lines) >= 1
       /\ lines[1] = <<"DHT_RESPONSE", COLON, FormatUsize(Len(lines) - 1)>>
       /\ Len(lines) - 1 = Cardinality(pairs)
       /\ {lines[k] : k \in 2..Len(lines)} = {EntryLine(e) : e \in pairs}

\* C25: the reply to a DHT_REQUEST line, and the reply after a
\* DHT_RESPONSE, is DHT_RESPONSE:<N> followed by exactly N entry lines, one
\* for each pair the index held at one instant of the step, also when other
\* tasks register entries between the steps of the task.
C25_ExportIsSnapshot ==
    [][\A k \in (Len(last[1]) + 1)..Len(last'[1]) :
          last'[1][k].kind \in {"dht_request", "dht_response"}
             => /\ \E pairs \in SUBSET ExportSet(dht'[1]) :
                      /\ ExportSet(dht[1]) \subseteq pairs
                      /\ IsExportOf(last'[1][k].reply, pairs)
                /\ Len(last'[1]) = Len(last[1]) + 1
                      => IsExportOf(last'[1][k].reply, ExportSet(dht'[1]))]_vars

\* The task has answered a DHT_REQUEST with three entries, two of them for
\* one file, after other tasks registered two entries during the session.
C25_Witness ==
    /\ dhtOp.op = "regs" /\ Len(dhtOp.entries) = 2
    /\ \E k \in 1..Len(last[1]) :
          /\ last[1][k].kind = "dht_request"
          /\ Len(LinesOf(last[1][k].reply)) = 4
          /\ LinesOf(last[1][k].reply)[1] = <<"DHT_RESPONSE", COLON, "3">>
    /\ \E f \in DOMAIN dht[1] : Len(dht[1][f]) = 2

\* The bytes of the session's stream the task has read so far.
Consumed == SubSeq(StreamOf(script.frames), 1,
                   Len(StreamOf(script.frames)) - Len(chan[1]))

\* The task after one read that returns all of the given bytes at once,
\* from its state before its first read.
SingleRead(bytes) ==
    IF bytes = <<>>
    THEN [pc |-> "read", buffer |-> <<>>, need |-> 0, dht |-> script.prior,
          out |-> <<>>, disp |-> <<>>]
    ELSE HandlerAfterRead([NewConn EXCEPT !.pc = "read"], script.prior, bytes,
                          Len(bytes), fs[1], iterOrder[1])

\* C26: whatever the sizes of the reads, the lines dispatched so far, the
\* bytes written in reply, the index, what is left in the buffer and the
\* loop the task is in are those of a task that got the same bytes in one
\* read: every line is dispatched once, in the order of arrival.
C26_SplitIndependent ==
    LET one == SingleRead(Consumed)
    IN /\ last[1] = one.disp
       /\ chan[2] = one.out
       /\ dht[1] = one.dht
       /\ conn[1].pc # "closed"
             => /\ conn[1].buffer = one.buffer
                /\ conn[1].pc = one.pc
                /\ conn[1].need = one.need

\* A read has ended in the middle of a line after lines were dispatched,
\* and bytes of the stream are still to be read.
C26_Witness ==
    /\ Len(last[1]) >= 1
    /\ conn[1].buffer # <<>> /\ PosNL(conn[1].buffer) = 0
    /\ conn[1].pc = "entry"
    /\ chan[1] # <<>>

\* The texts of the lines of the session's stream.
SessionLines == [k \in 1..Len(script.frames) |-> Trim(script.frames[k].bytes)]

\* A line is a header DHT_RESPONSE:<count>.
IsHeader(text) ==
    StartsWith(text, <<"DHT_RESPONSE", COLON>>) /\ Len(Split(text)) = 2

\* The number of lines a header announces: the number its count spells, 0
\* for a count that spells none.
HeaderCount(text) ==
    LET count == Split(text)[2]
    IN IF Len(count) = 1 /\ \E n \in 0..(Len(Dec) - 1) : Dec[n + 1] = count[1]
       THEN CHOOSE n \in 0..(Len(Dec) - 1) : Dec[n + 1] = count[1]
       ELSE 0

\* The lines that are dispatched, in the order of the stream, each with
\* whether it is a header: a header is dispatched once the lines it
\* announces have passed, these lines never (need of them are still to
\* come for the header hdr), every other line as it comes.
RECURSIVE ExpectedDispatch(_, _, _, _)
ExpectedDispatch(lines, i, need, hdr) ==
    IF i > Len(lines) THEN <<>>
    ELSE IF need > 1 THEN ExpectedDispatch(lines, i + 1, need - 1, hdr)
    ELSE IF need = 1 THEN <<<<hdr, TRUE>>>> \o ExpectedDispatch(lines, i + 1, 0, <<>>)
    ELSE IF IsHeader(lines[i])
    THEN IF HeaderCount(lines[i]) = 0
         THEN <<<<lines[i], TRUE>>>> \o ExpectedDispatch(lines, i + 1, 0, <<>>)
         ELSE ExpectedDispatch(lines, i + 1, HeaderCount(lines[i]), lines[i])
    ELSE <<<<lines[i], FALSE>>>> \o ExpectedDispatch(lines, i + 1, 0, <<>>)

\* The pair a line gives when it is taken as an entry: none unless it has
\* two fields, the first a file identifier.
EntryOf(text) ==
    IF Len(Split(text)) = 2 /\ ParseUuidOk(Split(text)[1])
    THEN {<<ParseUuid(Split(text)[1]), Split(text)[2]>>}
    ELSE {}

\* The pairs merged into the index: those of the lines that follow a
\* header as its entries, for the headers whose lines have all passed.
RECURSIVE ExpectedEntries(_, _, _, _)
ExpectedEntries(lines, i, need, acc) ==
    IF i > Len(lines) THEN {}
    ELSE IF need > 1
    THEN ExpectedEntries(lines, i + 1, need - 1, acc \cup EntryOf(lines[i]))
    ELSE IF need = 1
    THEN acc \cup EntryOf(lines[i]) \cup ExpectedEntries(lines, i + 1, 0, {})
    ELSE IF IsHeader(lines[i])
    THEN ExpectedEntries(lines, i + 1, HeaderCount(lines[i]), {})
    ELSE ExpectedEntries(lines, i + 1, 0, {})

\* C29: when the whole stream has been read, the lines dispatched are, in
\* order, every line that does not follow a header as one of its N entries;
\* a header is dispatched as DHT_RESPONSE, with a reply, once its N lines
\* have passed, at once when its count is no number; the N lines are taken
\* as entries whatever they spell, and the line after them is dispatched
\* as any other line.
C29_EntriesNotDispatched ==
    chan[1] = <<>>
        => /\ [k \in 1..Len(last[1]) |->
                  <<last[1][k].line, last[1][k].kind = "dht_response">>]
                 = ExpectedDispatch(SessionLines, 1, 0, <<>>)
           /\ \A k \in 1..Len(last[1]) :
                 last[1][k].kind = "dht_response"
                    => IsHeader(LinesOf(last[1][k].reply)[1])
           /\ ExportSet(dht[1])
                 = ExportSet(script.prior) \cup ExpectedEntries(SessionLines, 1, 0, {})

\* The stream was a header for two entries, a CHUNK_REQUEST line and an
\* entry line, then DHT_REQUEST: the header and DHT_REQUEST were dispatched.
C29_Witness ==
    /\ chan[1] = <<>>
    /\ Len(script.frames) = 4
    /\ SessionLines[2] = <<"CHUNK_REQUEST", COLON, "f1", COLON, "0">>
    /\ SessionLines[3] = <<"f2", COLON, "node3">>
    /\ Len(last[1]) = 2
    /\ last[1][1].kind = "dht_response"
    /\ last[1][2].kind = "dht_request"
    /\ <<"f2", <<"node3">>>> \in ExportSet(dht[1])

=============================================================================
